---- MODULE Spec2Model ----
(***************************************************************************)
(* A model of the control-flow-graph builder of py2flows                   *)
(* (src/py2flows/cfg/flows.py): the AST-directed walker CFGVisitor, the    *)
(* graph it emits and the empty-block elimination pass that ends build.    *)
(*                                                                         *)
(* The Python call stack of one builder is the sequence ctl of frames of   *)
(* that builder; the builders of nested function and class bodies are      *)
(* stacked in builders.  A Python `for x in list` loop over a list that    *)
(* the loop body mutates is modelled as CPython runs it: by an index into  *)
(* the live list.                                                          *)
(***************************************************************************)
EXTENDS Integers, Sequences, FiniteSets, TLC

VARIABLES
    inputs,     \* the modules handed to successive build calls of one process
    counter,    \* BlockId.counter, shared by every builder of the process
    visited,    \* the default argument `visited` of remove_empty_blocks
    builders,   \* stack of active CFGVisitor objects (last = innermost)
    retval,     \* the CFG returned by the build call that returned last
    results,    \* the CFGs returned by the top-level build calls, in order
    err,        \* "none", or the exception that ended the process
    names       \* how many names RandomVariableName.gen_random_name has returned

vars == <<inputs, counter, visited, builders, retval, results, err, names>>

----------------------------------------------------------------------------
(* AST nodes.  Every node is a record of the same shape.                   *)

Node(kind) ==
    [kind |-> kind, name |-> "", body |-> <<>>, orelse |-> <<>>,
     handlers |-> <<>>, finalbody |-> <<>>, value |-> <<>>,
     args |-> <<>>, defaults |-> <<>>, generators |-> <<>>, ifs |-> <<>>]

\* Statements that own bodies of statements.
CompoundKinds ==
    {"If", "While", "For", "Try", "FunctionDef", "AsyncFunctionDef", "ClassDef"}

\* A block's statement list holds the node itself.  Of a compound statement
\* the model keeps the header only: nothing reads the bodies through a block.
Stmt(n) ==
    IF n.kind \in CompoundKinds
    THEN [Node(n.kind) EXCEPT !.name = n.name, !.value = n.value]
    ELSE n

None == <<>>

----------------------------------------------------------------------------
(* BasicBlock and CFG.                                                     *)

BasicBlock == [stmts |-> <<>>, prev |-> <<>>, next |-> <<>>]

is_empty(blk) == Len(blk.stmts) = 0

has_next(blk) == Len(blk.next) # 0

InSeq(x, s) == \E i \in 1..Len(s) : s[i] = x

\* list.remove: drops the first occurrence.
RECURSIVE ListRemove(_, _)
ListRemove(s, x) ==
    IF s = <<>> THEN <<>>
    ELSE IF Head(s) = x THEN Tail(s)
    ELSE <<Head(s)>> \o ListRemove(Tail(s), x)

remove_from_prev(blk, prev_bid) ==
    IF InSeq(prev_bid, blk.prev)
    THEN [blk EXCEPT !.prev = ListRemove(@, prev_bid)] ELSE blk

remove_from_next(blk, next_bid) ==
    IF InSeq(next_bid, blk.next)
    THEN [blk EXCEPT !.next = ListRemove(@, next_bid)] ELSE blk

EmptyMap == [x \in {} |-> TRUE]

CFG(name) ==
    [name |-> name, start |-> 0, final_blocks |-> <<>>,
     func_cfgs |-> EmptyMap, class_cfgs |-> EmptyMap,
     blocks |-> EmptyMap, edges |-> EmptyMap, flows |-> {}]

NoCFG == CFG("")

\* dict pop(key, None)
DictPop(d, k) == [x \in (DOMAIN d) \ {k} |-> d[x]]

\* dict.get(key)
DictGet(d, k) == IF k \in DOMAIN d THEN d[k] ELSE None

----------------------------------------------------------------------------
(* CFGVisitor helpers, as functions of the CFG they change.  A block id is *)
(* handed in by the caller, which draws it from the counter.               *)

gen_block_id(c) == c + 1

new_block(g, bid) == [g EXCEPT !.blocks = (bid :> BasicBlock) @@ @]

add_stmt(g, bid, stmt) ==
    [g EXCEPT !.blocks[bid].stmts = Append(@, stmt)]

\* add_edge that leaves the target's predecessor list alone.
add_edge_no_prev(g, frm_id, to_id, condition) ==
    [g EXCEPT !.blocks[frm_id].next = Append(@, to_id),
              !.edges = (<<frm_id, to_id>> :> condition) @@ @,
              !.flows = @ \cup {<<frm_id, to_id>>}]

add_edge(g, frm_id, to_id, condition) ==
    LET b1 == [g.blocks EXCEPT ![frm_id].next = Append(@, to_id)]
        b2 == [b1 EXCEPT ![to_id].prev = Append(@, frm_id)]
    IN [g EXCEPT !.blocks = b2,
                 !.edges = (<<frm_id, to_id>> :> condition) @@ @,
                 !.flows = @ \cup {<<frm_id, to_id>>}]

\* add_condition with the operands of the conjunction exchanged.
add_condition_swapped(cond1, cond2) ==
    IF cond1 # None /\ cond2 # None
    THEN <<"And">> \o cond2 \o cond1
    ELSE IF cond1 # None THEN cond1 ELSE cond2

add_condition(cond1, cond2) ==
    IF cond1 # None /\ cond2 # None
    THEN <<"And">> \o cond1 \o cond2
    ELSE IF cond1 # None THEN cond1 ELSE cond2

----------------------------------------------------------------------------
(* Builders and frames.                                                    *)

\* for child in body_list: self.visit(child); then, when link, the tail of
\* populate_body_to_next_bid.
BodyFrame(ns, link, to) == [f |-> "body", ns |-> ns, link |-> link, to |-> to]

\* CFGVisitor.__init__ followed by the first three lines of build; tree is
\* the argument of build.
NewBuilder(name, tree, bid) ==
    [cfg |-> [new_block(CFG(name), bid) EXCEPT !.start = bid],
     curr_block |-> bid,
     loop_stack |-> <<>>,
     loop_guard_stack |-> <<>>,
     list_comp_stack |-> <<>>,
     set_comp_stack |-> <<>>,
     dict_comp_stack |-> <<>>,
     gen_exp_stack |-> <<>>,
     lambda_exp_stack |-> <<>>,
     ifExp |-> FALSE,
     tree |-> tree,
     ctl |-> <<BodyFrame(tree.body, FALSE, 0), [f |-> "build", pc |-> "compact"]>>]

Active == err = "none" /\ builders # <<>>

B == builders[Len(builders)]

Fr == Head(B.ctl)

AtFrame(f) == Active /\ B.ctl # <<>> /\ Fr.f = f

\* Builder b is about to visit a node of the given kind.
AtFrameOf(b, kind) ==
    /\ b.ctl # <<>>
    /\ Head(b.ctl).f = "body"
    /\ Head(b.ctl).ns # <<>>
    /\ Head(Head(b.ctl).ns).kind = kind

AtVisit(kinds) ==
    /\ AtFrame("body")
    /\ Fr.ns # <<>>
    /\ Head(Fr.ns).kind \in kinds

Cur == Head(Fr.ns)

\* The frames left once the visit of Cur has returned.
Rest == <<[Fr EXCEPT !.ns = Tail(@)]>> \o Tail(B.ctl)

\* The innermost builder becomes nb, BlockId.counter nc, and the number of
\* names handed out nn.
StepNames(nb, nc, nn) ==
    /\ builders' = [builders EXCEPT ![Len(builders)] = nb]
    /\ counter' = nc
    /\ names' = nn
    /\ UNCHANGED <<inputs, visited, retval, results, err>>

Step(nb, nc) == StepNames(nb, nc, names)

Raise(e) ==
    /\ err' = e
    /\ UNCHANGED <<names, inputs, counter, visited, builders, retval, results>>

Last(s) == s[Len(s)]

Pop(s) == SubSeq(s, 1, Len(s) - 1)

----------------------------------------------------------------------------
(* Inputs: every module whose statements number at most a bound, over a   *)
(* few families of statement kinds.                                        *)

Name(id) == [Node("Name") EXCEPT !.name = id]

Test == <<Name("c")>>

\* Simple statements.
SAssign == [Node("Assign") EXCEPT !.name = "x", !.value = <<Node("Num")>>]
SNop == [Node("Expr") EXCEPT !.value = <<Name("a")>>]
SCall == [Node("Expr") EXCEPT !.value = <<[Node("Call") EXCEPT !.name = "f"]>>]
SLambda == [Node("Expr") EXCEPT !.value = <<Node("Lambda")>>]
SListComp == [Node("Expr") EXCEPT !.value = <<Node("ListComp")>>]
SReturn == [Node("Return") EXCEPT !.value = <<Name("a")>>]
SAssert == [Node("Assert") EXCEPT !.value = Test]
SRaise == [Node("Raise") EXCEPT !.value = <<Name("E")>>]

IfExp(body, orelse) ==
    [Node("IfExp") EXCEPT !.value = Test, !.body = <<body>>, !.orelse = <<orelse>>]

\* return a if c else b, and the two ways of nesting one more conditional.
SReturnIfExp ==
    { [Node("Return") EXCEPT !.value = <<e>>] :
        e \in { IfExp(Name("a"), Name("b")),
                IfExp(Name("a"), IfExp(Name("b"), Name("d"))),
                IfExp(IfExp(Name("a"), Name("b")), Name("d")) } }

\* The header of a compound statement of the given kind.
Header(kind, name) ==
    CASE kind \in {"If", "While"} -> [Node(kind) EXCEPT !.value = Test]
      [] kind = "For" -> [Node(kind) EXCEPT !.name = "i", !.value = <<Name("r")>>]
      [] OTHER -> [Node(kind) EXCEPT !.name = name]

BranchKinds == {"If", "While", "For"}
DefKinds == {"FunctionDef", "AsyncFunctionDef", "ClassDef"}
DefNames == {"f", "g"}
HandlerTypes == {"E", ""}

\* The statements (Stmts) and the statement lists (Bodies) of exactly n
\* nodes built from the simple statements A and the compound kinds K.
RECURSIVE Stmts(_, _, _), Bodies(_, _, _)
Bodies(A, K, n) ==
    IF n = 0 THEN {<<>>}
    ELSE UNION { { <<s>> \o r : s \in Stmts(A, K, k), r \in Bodies(A, K, n - k) } :
                 k \in 1..n }

Stmts(A, K, n) ==
    IF n = 1 THEN A
    ELSE UNION {
        IF kind \in BranchKinds
        THEN UNION { { [Header(kind, "") EXCEPT !.body = b, !.orelse = o] :
                         b \in Bodies(A, K, nb), o \in Bodies(A, K, n - 1 - nb) } :
                     nb \in 1..(n - 1) }
        ELSE { [Header(kind, nm) EXCEPT !.body = b] :
                 nm \in DefNames, b \in Bodies(A, K, n - 1) }
        : kind \in K }

Module(body) == [Node("Module") EXCEPT !.body = body]

\* Modules of 1..n nodes.
Modules(A, K, n) == { Module(b) : b \in UNION { Bodies(A, K, k) : k \in 1..n } }

MaxFlow == 3
MaxDefs == 3
MaxHandlers == 2
MaxBranch == 2

\* Control flow: branches and loops over assignments, statements that emit
\* nothing, returns, breaks and continues.
FlowPrograms ==
    Modules({SAssign, SNop, SReturn, Node("Break"), Node("Continue")},
            {"If", "While"}, MaxFlow)

\* Nested bodies: function and class definitions, also under a loop or a branch.
DefPrograms ==
    Modules({SAssign, SReturn, Node("Break")},
            {"While", "If", "FunctionDef", "AsyncFunctionDef", "ClassDef"}, MaxDefs)

\* The sequences over S of length at most n.
RECURSIVE SeqsUpTo(_, _)
SeqsUpTo(S, n) ==
    IF n = 0 THEN {<<>>}
    ELSE LET R == SeqsUpTo(S, n - 1)
         IN R \cup { <<x>> \o r : x \in S, r \in { q \in R : Len(q) = n - 1 } }

\* try statements with up to MaxHandlers except clauses, an else clause and a
\* finally clause; alone, after and before an assignment, and inside a loop.
TryStmts ==
    LET SWhile == [Header("While", "") EXCEPT !.body = <<SAssign>>]
        TryBodies == {<<SAssign>>, <<SNop>>, <<SReturn>>, <<SWhile>>}
        Clauses == {<<SAssign>>, <<SNop>>}
        Handlers == { [Node("ExceptHandler") EXCEPT !.name = ty, !.body = hb] :
                        ty \in HandlerTypes, hb \in Clauses }
    IN { [Node("Try") EXCEPT !.body = b, !.handlers = hs, !.orelse = o,
                             !.finalbody = fb] :
           b \in TryBodies, hs \in SeqsUpTo(Handlers, MaxHandlers),
           o \in {<<>>, <<SAssign>>}, fb \in {<<>>} \cup Clauses }

TryPrograms ==
    LET T == { t \in TryStmts :
                 /\ t.handlers # <<>> \/ t.finalbody # <<>>
                 /\ t.orelse # <<>> => t.handlers # <<>> }
        Plain == { t \in T : t.body \in {<<SAssign>>, <<SNop>>} /\ Len(t.handlers) <= 1 }
    IN { Module(<<t>>) : t \in T }
       \cup { Module(<<SAssign, t>>) : t \in Plain }
       \cup { Module(<<t, SAssign>>) : t \in Plain }
       \cup { Module(<<[Header("For", "") EXCEPT !.body = <<t>>]>>) : t \in Plain }

\* Two definitions in one body, one after the other and one in each branch
\* of an if; of the same name or not, of the same kind or not.
TwoDefPrograms ==
    LET D == { [Header(kind, nm) EXCEPT !.body = b] :
                 kind \in DefKinds, nm \in DefNames, b \in {<<SAssign>>, <<SReturn>>} }
    IN { Module(<<d, e>>) : d, e \in D }
       \cup { Module(<<[Header("If", "") EXCEPT !.body = <<d>>, !.orelse = <<e>>]>>) :
                d, e \in D }

\* for loops, with and without an else clause, alone, after and before an
\* assignment.
ForPrograms ==
    LET L == { [Header("For", "") EXCEPT !.body = b, !.orelse = o] :
                 b \in {<<SAssign>>, <<SNop>>, <<Node("Break")>>, <<Node("Continue")>>,
                        <<SAssign, Node("Continue")>>},
                 o \in {<<>>, <<SAssign>>, <<SNop>>} }
    IN { Module(<<l>>) : l \in L }
       \cup { Module(<<SAssign, l>>) : l \in L }
       \cup { Module(<<l, SAssign>>) : l \in L }

\* if/else over straight-line branches, followed by a statement, alone and
\* after an assignment.
IfElsePrograms ==
    LET Then == SeqsUpTo({SAssign, SCall, SNop}, MaxBranch) \ {<<>>}
        Else == {<<SAssign>>, <<Node("Pass")>>, <<SNop>>, <<SAssign, Node("Pass")>>}
        After == {SAssign, SCall}
    IN { Module(pre \o <<[Header("If", "") EXCEPT !.body = b, !.orelse = o], after>>) :
           pre \in {<<>>, <<SAssign>>}, b \in Then, o \in Else, after \in After }

\* while c: (if b: break; t), followed by a statement, alone and after an
\* assignment.
WhileBreakPrograms ==
    LET IfBreak == [Header("If", "") EXCEPT !.body = <<Node("Break")>>]
    IN { Module(pre \o <<[Header("While", "") EXCEPT !.body = <<IfBreak, t>>], after>>) :
           pre \in {<<>>, <<SAssign>>},
           t \in {SAssign, SCall, SNop, SAssert, Node("Pass")},
           after \in {SAssign, SCall, Node("Pass")} }

\* One statement of every remaining kind, alone and after an assignment.
ExprPrograms ==
    LET S == {SCall, SLambda, SListComp, SAssert, SRaise, Node("Pass")}
             \cup SReturnIfExp
    IN { Module(<<s>>) : s \in S } \cup { Module(<<SAssign, s>>) : s \in S }

\* y = [e for a in A if ... for b in B if ...]: up to MaxGens generators, each
\* with up to MaxIfs conditions; the element is a name or, with one
\* generator, a call or a call of a call.  Alone and between two assignments.
MaxGens == 2

MaxIfs == 2

GenTargets == <<"a", "b", "d", "g">>

GenIters == <<"A", "B", "D", "G">>

IfTests == <<Name("p"), Name("q"), Name("r"), Name("s")>>

Call(func, args) == [Node("Call") EXCEPT !.name = func, !.args = args]

comprehension(j, m) ==
    [Node("comprehension") EXCEPT !.name = GenTargets[j], !.value = <<Name(GenIters[j])>>,
                                  !.ifs = SubSeq(IfTests, 1, m)]

ListComp(elt, generators) ==
    [Node("ListComp") EXCEPT !.value = <<elt>>, !.generators = generators]

ListCompAssigns ==
    LET Gens(k) == { [j \in 1..k |-> comprehension(j, m[j])] : m \in [1..k -> 0..MaxIfs] }
        Elts(k) == IF k = 1
                   THEN {Name("e"), Call("f", <<Name("a")>>),
                         Call("f", <<Call("h", <<Name("a")>>)>>)}
                   ELSE {Name("e")}
    IN UNION { { [Node("Assign") EXCEPT !.name = "y", !.value = <<ListComp(e, gs)>>] :
                   e \in Elts(k), gs \in Gens(k) } :
               k \in 1..MaxGens }

ListCompPrograms ==
    { Module(<<s>>) : s \in ListCompAssigns }
    \cup { Module(<<SAssign, s, SAssign>>) : s \in ListCompAssigns }

\* Calls among the arguments of a call, in an assignment and in an expression
\* statement.
NestedCallPrograms ==
    LET C == { Call("f", <<Call("h", <<Name("a")>>)>>),
               Call("f", <<Name("a"), Call("h", <<Name("b")>>)>>),
               Call("f", <<Call("h", <<Call("k", <<>>)>>)>>),
               Call("f", <<Call("h", <<Name("a")>>), Node("Num"), Call("g", <<Name("b")>>)>>),
               Call("f", <<Call("h", <<Call("k", <<Name("b")>>)>>), Call("g", <<Name("a")>>)>>),
               Call("f", <<[Node("Attribute") EXCEPT !.name = "a.b"],
                           Call("h", <<Name("a")>>)>>) }
    IN { Module(<<[Node("Assign") EXCEPT !.name = "y", !.value = <<c>>]>>) : c \in C }
       \cup { Module(<<[Node("Expr") EXCEPT !.value = <<c>>]>>) : c \in C }

\* while and for loops with an else clause, with and without a break in the
\* body, followed by a statement.
LoopElsePrograms ==
    LET SIfBreak == [Header("If", "") EXCEPT !.body = <<Node("Break")>>]
    IN { Module(<<[Header(kind, "") EXCEPT !.body = b, !.orelse = <<SCall>>], Node("Pass")>>) :
           kind \in {"While", "For"}, b \in {<<SAssign>>, <<SIfBreak, SAssign>>} }

\* A function definition with n <= MaxParams positional parameters, the last
\* d <= n of them with a default, and a single return as its body, followed
\* by one statement.
MaxParams == 3

ParamNames == <<"x", "y", "z", "u", "v", "w">>

ParamDefaults == <<Name("a"), Name("b"), Name("d"), Name("e"), Name("g"), Name("h")>>

ParamPrograms ==
    UNION { { Module(<<[Header("FunctionDef", "f") EXCEPT
                          !.body = <<SReturn>>,
                          !.args = SubSeq(ParamNames, 1, n),
                          !.defaults = SubSeq(ParamDefaults, 1, d)],
                       s>>) :
                d \in 0..n, s \in {SAssign, SCall} } :
            n \in 0..MaxParams }

\* A raise followed by a statement: at the top level, in the body of an if,
\* of a while and of a try.
RaisePrograms ==
    { Module(<<SRaise, SAssign>>),
      Module(<<[Header("If", "") EXCEPT !.body = <<SRaise>>], SAssign>>),
      Module(<<[Header("While", "") EXCEPT !.body = <<SRaise, SAssign>>], SAssign>>),
      Module(<<[Node("Try") EXCEPT
                  !.body = <<SRaise>>,
                  !.handlers = <<[Node("ExceptHandler") EXCEPT
                                    !.name = "E", !.body = <<SAssign>>]>>],
               SAssign>>) }

\* A list comprehension as an expression statement, with and without a
\* condition, alone and after an assignment.
BareCompPrograms ==
    LET C == { [Node("Expr") EXCEPT
                  !.value = <<ListComp(Name("e"), <<comprehension(1, m)>>)>>] : m \in 0..1 }
    IN { Module(<<c>>) : c \in C } \cup { Module(<<SAssign, c>>) : c \in C }

\* A loop with a break or a continue in its else clause, followed by a call;
\* alone, and as the body of a loop of the other kind that is followed by an
\* assignment.
ElseJumpLoops ==
    LET IfBreak == [Header("If", "") EXCEPT !.body = <<Node("Break")>>]
    IN { [Header(kind, "") EXCEPT !.body = b, !.orelse = o] :
           kind \in {"While", "For"},
           b \in {<<Node("Pass")>>, <<Node("Break")>>, <<IfBreak, Node("Pass")>>},
           o \in {<<Node("Break")>>, <<Node("Continue")>>,
                  <<Node("Pass"), Node("Break")>>} }

ElseJumpPrograms ==
    { Module(<<l, SCall>>) : l \in ElseJumpLoops }
    \cup { Module(<<[Header(IF l.kind = "While" THEN "For" ELSE "While", "")
                       EXCEPT !.body = <<l, SCall>>],
                    SAssign>>) : l \in ElseJumpLoops }

Programs ==
    FlowPrograms \cup DefPrograms \cup TwoDefPrograms \cup TryPrograms \cup ForPrograms
    \cup IfElsePrograms \cup WhileBreakPrograms \cup ExprPrograms \cup ParamPrograms
    \cup ListCompPrograms \cup NestedCallPrograms \cup LoopElsePrograms
    \cup RaisePrograms \cup BareCompPrograms \cup ElseJumpPrograms

\* Two build calls in one process.
Sessions ==
    { <<p>> : p \in Programs }
    \cup { <<p, q>> : p, q \in Modules({SAssign, SReturn}, {"While", "FunctionDef"}, 2) }

Init ==
    /\ inputs \in Sessions
    /\ counter = 0
    /\ visited = {}
    /\ builders = <<>>
    /\ retval = NoCFG
    /\ results = <<>>
    /\ err = "none"
    /\ names = 0

----------------------------------------------------------------------------
(* build                                                                   *)

\* A top-level call CFGVisitor().build(name, tree), up to self.visit(tree).
\* build that restarts the block counter.
build_resets_counter ==
    /\ err = "none"
    /\ builders = <<>>
    /\ Len(results) < Len(inputs)
    /\ builders' = <<NewBuilder("module", inputs[Len(results) + 1], gen_block_id(0))>>
    /\ counter' = gen_block_id(0)
    /\ UNCHANGED <<names, inputs, visited, retval, results, err>>

build ==
    /\ err = "none"
    /\ builders = <<>>
    /\ Len(results) < Len(inputs)
    /\ builders' = <<NewBuilder("module", inputs[Len(results) + 1],
                                gen_block_id(counter))>>
    /\ counter' = gen_block_id(counter)
    /\ UNCHANGED <<names, inputs, visited, retval, results, err>>

\* self.remove_empty_blocks(self.cfg.start); the frame of build remembers in
\* `before` the CFG the pass starts from.
build_compact ==
    /\ AtFrame("build")
    /\ Fr.pc = "compact"
    /\ Step([B EXCEPT !.ctl =
                <<[f |-> "reb", pc |-> "enter", bid |-> B.cfg.start,
                   i |-> 1, j |-> 1, empty |-> FALSE],
                  [f |-> "build", pc |-> "return", before |-> B.cfg]>> \o Tail(B.ctl)],
            counter)

\* return self.cfg
build_return ==
    /\ AtFrame("build")
    /\ Fr.pc = "return"
    /\ retval' = B.cfg
    /\ builders' = Pop(builders)
    /\ results' = IF Len(builders) = 1 THEN Append(results, B.cfg) ELSE results
    /\ UNCHANGED <<names, inputs, counter, visited, err>>

----------------------------------------------------------------------------
(* remove_empty_blocks(block, visited)                                     *)

RebBlock == B.cfg.blocks[Fr.bid]

SetFr(fr) == [B EXCEPT !.ctl = <<fr>> \o Tail(B.ctl)]

\* if block.bid not in visited: visited.add(block.bid); if block.is_empty()
reb_enter ==
    /\ AtFrame("reb")
    /\ Fr.pc = "enter"
    /\ IF Fr.bid \in visited
       THEN /\ builders' = [builders EXCEPT ![Len(builders)] =
                               [B EXCEPT !.ctl = Tail(@)]]
            /\ UNCHANGED visited
       ELSE /\ visited' = visited \cup {Fr.bid}
            /\ builders' = [builders EXCEPT ![Len(builders)] =
                 SetFr([Fr EXCEPT !.pc = IF is_empty(RebBlock) THEN "elim" ELSE "rec",
                                  !.empty = is_empty(RebBlock)])]
    /\ UNCHANGED <<names, inputs, counter, retval, results, err>>

\* A turn that unlinks the block from its successor and adds no edge from
\* its predecessor.
reb_pair_cfg_unlink_only(g, bid, prev_bid, next_bid) ==
    LET g3 == [g EXCEPT !.edges = DictPop(@, <<bid, next_bid>>)]
        g4 == [g3 EXCEPT !.blocks[next_bid] = remove_from_prev(@, bid)]
    IN [g4 EXCEPT !.flows = @ \ {<<bid, next_bid>>}]

\* One turn of `for next_bid in block.next` inside `for prev_bid in block.prev`.
reb_pair_cfg(g, bid, prev_bid, next_bid) ==
    LET g1 == add_edge(g, prev_bid, next_bid,
                       add_condition(DictGet(g.edges, <<prev_bid, bid>>),
                                     DictGet(g.edges, <<bid, next_bid>>)))
        g2 == [g1 EXCEPT !.flows = @ \cup {<<prev_bid, next_bid>>}]
        g3 == [g2 EXCEPT !.edges = DictPop(@, <<bid, next_bid>>)]
        g4 == [g3 EXCEPT !.blocks[next_bid] = remove_from_prev(@, bid)]
    IN [g4 EXCEPT !.flows = @ \ {<<bid, next_bid>>}]

reb_pair ==
    /\ AtFrame("reb")
    /\ Fr.pc = "elim"
    /\ Fr.i <= Len(RebBlock.prev)
    /\ Fr.j <= Len(RebBlock.next)
    /\ Step([SetFr([Fr EXCEPT !.j = @ + 1]) EXCEPT !.cfg =
                reb_pair_cfg(B.cfg, Fr.bid, RebBlock.prev[Fr.i], RebBlock.next[Fr.j])],
            counter)

\* The end of one turn that erases the edge and keeps its flow.
reb_prev_cfg_keep_flow(g, bid, prev_bid) ==
    LET g1 == [g EXCEPT !.edges = DictPop(@, <<prev_bid, bid>>)]
    IN [g1 EXCEPT !.blocks[prev_bid] = remove_from_next(@, bid)]

\* The end of one turn of `for prev_bid in block.prev`.
reb_prev_cfg(g, bid, prev_bid) ==
    LET g1 == [g EXCEPT !.edges = DictPop(@, <<prev_bid, bid>>)]
        g2 == [g1 EXCEPT !.blocks[prev_bid] = remove_from_next(@, bid)]
    IN [g2 EXCEPT !.flows = @ \ {<<prev_bid, bid>>}]

reb_prev ==
    /\ AtFrame("reb")
    /\ Fr.pc = "elim"
    /\ Fr.i <= Len(RebBlock.prev)
    /\ Fr.j > Len(RebBlock.next)
    /\ Step([SetFr([Fr EXCEPT !.i = @ + 1, !.j = 1]) EXCEPT !.cfg =
                reb_prev_cfg(B.cfg, Fr.bid, RebBlock.prev[Fr.i])],
            counter)

\* block.prev.clear()
reb_clear_prev ==
    /\ AtFrame("reb")
    /\ Fr.pc = "elim"
    /\ Fr.i > Len(RebBlock.prev)
    /\ Step([SetFr([Fr EXCEPT !.pc = "rec", !.i = 1]) EXCEPT
                !.cfg.blocks[Fr.bid].prev = <<>>],
            counter)

\* A turn of the loop over block.next that does not advance in the list.
reb_recurse_same ==
    /\ AtFrame("reb")
    /\ Fr.pc = "rec"
    /\ Fr.i <= Len(RebBlock.next)
    /\ Step([B EXCEPT !.ctl =
                <<[f |-> "reb", pc |-> "enter", bid |-> RebBlock.next[Fr.i],
                   i |-> 1, j |-> 1, empty |-> FALSE],
                  Fr>> \o Tail(B.ctl)],
            counter)

\* One turn of `for next_bid in block.next: self.remove_empty_blocks(...)`.
reb_recurse ==
    /\ AtFrame("reb")
    /\ Fr.pc = "rec"
    /\ Fr.i <= Len(RebBlock.next)
    /\ Step([B EXCEPT !.ctl =
                <<[f |-> "reb", pc |-> "enter", bid |-> RebBlock.next[Fr.i],
                   i |-> 1, j |-> 1, empty |-> FALSE],
                  [Fr EXCEPT !.i = @ + 1]>> \o Tail(B.ctl)],
            counter)

\* The loop over block.next is exhausted; block.next.clear() for an empty block.
reb_return ==
    /\ AtFrame("reb")
    /\ Fr.pc = "rec"
    /\ Fr.i > Len(RebBlock.next)
    /\ Step([B EXCEPT !.ctl = Tail(@),
                      !.cfg.blocks[Fr.bid].next = IF Fr.empty THEN <<>> ELSE @],
            counter)

\* The body of `if block.is_empty()` for one block, without the recursion:
\* the loop over block.prev, the loop over block.next inside it, and the
\* clearing of both lists.
RECURSIVE eliminate_next(_, _, _, _)
eliminate_next(g, bid, i, j) ==
    IF j > Len(g.blocks[bid].next) THEN g
    ELSE eliminate_next(reb_pair_cfg(g, bid, g.blocks[bid].prev[i], g.blocks[bid].next[j]),
                        bid, i, j + 1)

RECURSIVE eliminate_prev(_, _, _)
eliminate_prev(g, bid, i) ==
    IF i > Len(g.blocks[bid].prev) THEN g
    ELSE eliminate_prev(reb_prev_cfg(eliminate_next(g, bid, i, 1), bid, g.blocks[bid].prev[i]),
                        bid, i + 1)

eliminate(g, bid) ==
    [eliminate_prev(g, bid, 1) EXCEPT !.blocks[bid].prev = <<>>,
                                      !.blocks[bid].next = <<>>]

\* A second call self.remove_empty_blocks(self.cfg.start, set()) on the visitor
\* whose build has returned: visited is bound to the fresh set for the call,
\* the default set is kept aside.
rerun_begin ==
    /\ err = "none"
    /\ builders = <<>>
    /\ results # <<>>
    /\ Len(results) = Len(inputs)
    /\ builders' = <<[NewBuilder(Last(results).name, inputs[Len(inputs)], Last(results).start)
                        EXCEPT !.cfg = Last(results),
                               !.ctl = <<[f |-> "reb", pc |-> "enter",
                                          bid |-> Last(results).start,
                                          i |-> 1, j |-> 1, empty |-> FALSE],
                                         [f |-> "rerun", saved |-> visited]>>]>>
    /\ visited' = {}
    /\ UNCHANGED <<names, inputs, counter, retval, results, err>>

\* The second call has returned; the graph as it left it is recorded after
\* the graphs the builds returned.
rerun_end ==
    /\ AtFrame("rerun")
    /\ builders' = <<>>
    /\ results' = Append(results, B.cfg)
    /\ visited' = Fr.saved
    /\ UNCHANGED <<names, inputs, counter, retval, err>>

----------------------------------------------------------------------------
(* Statement visitors.                                                     *)

\* The tail of populate_body_to_next_bid (link) or of generic_visit.
body_end ==
    /\ AtFrame("body")
    /\ Fr.ns = <<>>
    /\ Step([B EXCEPT
               !.ctl = Tail(@),
               !.cfg = IF Fr.link /\ B.cfg.blocks[B.curr_block].next = <<>>
                       THEN add_edge(@, B.curr_block, Fr.to, None) ELSE @],
            counter)

\* add_stmt; curr_block = add_edge(curr_block, new_block())
AppendAndAdvance(b, n, bid) ==
    [b EXCEPT !.cfg = add_edge(new_block(add_stmt(@, b.curr_block, Stmt(n)), bid),
                               b.curr_block, bid, None),
              !.curr_block = bid]

\* The names of RandomVariableName.gen_random_name, in the order returned.
TmpNames == <<"tmp1", "tmp2", "tmp3", "tmp4">>

\* lower_args that binds the arguments from right to left.
RECURSIVE lower_args_right_to_left(_, _)
lower_args_right_to_left(args, k) ==
    IF args = <<>> THEN [arg_sequence |-> <<>>, arg_name_sequence |-> <<>>, names |-> k]
    ELSE IF Head(args).kind \notin {"Name", "Num"}
    THEN LET tmp_var == TmpNames[k + 1]
             rest == lower_args_right_to_left(Tail(args), k + 1)
         IN [rest EXCEPT
               !.arg_sequence = @ \o <<[Node("Assign") EXCEPT !.name = tmp_var,
                                                              !.value = <<Head(args)>>]>>,
               !.arg_name_sequence = <<Name(tmp_var)>> \o @]
    ELSE LET rest == lower_args_right_to_left(Tail(args), k)
         IN [rest EXCEPT !.arg_name_sequence = <<Head(args)>> \o @]

\* The arguments a call is lowered with: every argument that is neither a
\* Name nor a Num is bound to a new name, k names having been returned so far.
RECURSIVE lower_args(_, _)
lower_args(args, k) ==
    IF args = <<>> THEN [arg_sequence |-> <<>>, arg_name_sequence |-> <<>>, names |-> k]
    ELSE IF Head(args).kind \notin {"Name", "Num"}
    THEN LET tmp_var == TmpNames[k + 1]
             rest == lower_args(Tail(args), k + 1)
         IN [rest EXCEPT
               !.arg_sequence = <<[Node("Assign") EXCEPT !.name = tmp_var,
                                                         !.value = <<Head(args)>>]>> \o @,
               !.arg_name_sequence = <<Name(tmp_var)>> \o @]
    ELSE LET rest == lower_args(Tail(args), k)
         IN [rest EXCEPT !.arg_name_sequence = <<Head(args)>> \o @]

HasCallArg(call) == \E i \in 1..Len(call.args) : call.args[i].kind = "Call"

NonTrivialArgs(call) ==
    Cardinality({ i \in 1..Len(call.args) : call.args[i].kind \notin {"Name", "Num"} })

\* visit_Assign up to the first visit it makes: the lowering of a call with
\* calls among its arguments, the first half of the lowering of a list
\* comprehension, or the plain assignment.
visit_Assign ==
    /\ AtVisit({"Assign"})
    /\ LET value == Cur.value[1]
       IN IF value.kind = "Call" /\ HasCallArg(value)
          THEN /\ names + NonTrivialArgs(value) <= Len(TmpNames)
               /\ LET low == lower_args(value.args, names)
                      assign2 == [Cur EXCEPT !.value = <<Call(value.name, low.arg_name_sequence)>>]
                  IN StepNames([B EXCEPT !.ctl = <<BodyFrame(low.arg_sequence \o <<assign2>>,
                                                            FALSE, 0)>> \o Rest],
                               counter, low.names)
          ELSE IF value.kind = "ListComp"
          THEN /\ names < Len(TmpNames)
               /\ LET tmp_var == TmpNames[names + 1]
                      b1 == AppendAndAdvance(
                                [B EXCEPT !.list_comp_stack = Append(@, tmp_var)],
                                [Node("Assign") EXCEPT !.name = tmp_var,
                                                       !.value = <<Node("List")>>],
                                gen_block_id(counter))
                  IN StepNames([b1 EXCEPT !.ctl = <<BodyFrame(<<value>>, FALSE, 0),
                                                    [f |-> "visit_Assign", node |-> Cur]>>
                                                  \o Rest],
                               gen_block_id(counter), names + 1)
          ELSE Step([AppendAndAdvance(B, Cur, gen_block_id(counter)) EXCEPT !.ctl = Rest],
                    gen_block_id(counter))

\* The second half of the lowering of a list comprehension: the name is
\* popped and the target is assigned from it.
visit_Assign_end ==
    /\ AtFrame("visit_Assign")
    /\ LET old_name == Last(B.list_comp_stack)
           b1 == AppendAndAdvance(
                     [B EXCEPT !.list_comp_stack = Pop(@)],
                     [Node("Assign") EXCEPT !.name = Fr.node.name,
                                            !.value = <<Name(old_name)>>],
                     gen_block_id(counter))
       IN Step([b1 EXCEPT !.ctl = Tail(B.ctl)], gen_block_id(counter))

visit_Pass ==
    /\ AtVisit({"Pass"})
    /\ Step([AppendAndAdvance(B, Cur, gen_block_id(counter)) EXCEPT !.ctl = Rest],
            gen_block_id(counter))

visit_Call ==
    /\ AtVisit({"Call"})
    /\ IF HasCallArg(Cur)
       THEN /\ names + NonTrivialArgs(Cur) <= Len(TmpNames)
            /\ LET low == lower_args(Cur.args, names)
                   call == [Cur EXCEPT !.args = low.arg_name_sequence]
               IN StepNames([B EXCEPT !.ctl = <<BodyFrame(low.arg_sequence \o <<call>>,
                                                         FALSE, 0)>> \o Rest],
                            counter, low.names)
       ELSE Step([AppendAndAdvance(B, Cur, gen_block_id(counter)) EXCEPT !.ctl = Rest],
                 gen_block_id(counter))

\* The child nodes ast.NodeVisitor.generic_visit walks, in field order.
Children(n) == n.value \o n.body \o n.orelse \o n.finalbody

\* Node kinds with no visit_ method of their own and no special case in
\* generic_visit.
GenericKinds == {"Name", "Num", "Raise"}

generic_visit ==
    /\ AtVisit(GenericKinds)
    /\ Step([B EXCEPT !.ctl = <<BodyFrame(Children(Cur), FALSE, 0)>> \o Rest], counter)

visit_Expr ==
    /\ AtVisit({"Expr"})
    /\ Step([B EXCEPT !.ctl = <<BodyFrame(Children(Cur), FALSE, 0)>> \o Rest], counter)

visit_If ==
    /\ AtVisit({"If"})
    /\ LET cur == B.curr_block
           after_if == gen_block_id(counter)
           if_body == gen_block_id(after_if)
           g1 == new_block(add_stmt(B.cfg, cur, Stmt(Cur)), after_if)
           g2 == add_edge(new_block(g1, if_body), cur, if_body, None)
           fr == [f |-> "visit_If", pc |-> "end", body |-> Cur.body,
                  after_if |-> after_if, if_body |-> if_body]
       IN IF Cur.orelse # <<>>
          THEN LET else_block == gen_block_id(if_body)
                   g3 == add_edge(new_block(g2, else_block), cur, else_block, None)
               IN Step([B EXCEPT
                          !.cfg = g3, !.curr_block = else_block,
                          !.ctl = <<BodyFrame(Cur.orelse, TRUE, after_if),
                                    [fr EXCEPT !.pc = "body"]>> \o Rest],
                       else_block)
          ELSE Step([B EXCEPT
                       !.cfg = add_edge(g2, cur, after_if, None),
                       !.curr_block = if_body,
                       !.ctl = <<BodyFrame(Cur.body, TRUE, after_if), fr>> \o Rest],
                    if_body)

\* The then branch populated without the link to after_if.
visit_If_body_unlinked ==
    /\ AtFrame("visit_If")
    /\ Fr.pc = "body"
    /\ Step([B EXCEPT !.curr_block = Fr.if_body,
                      !.ctl = <<BodyFrame(Fr.body, FALSE, Fr.after_if),
                                [Fr EXCEPT !.pc = "end"]>> \o Tail(B.ctl)],
            counter)

\* self.curr_block = if_body_block; populate_body_to_next_bid(node.body, after_if)
visit_If_body ==
    /\ AtFrame("visit_If")
    /\ Fr.pc = "body"
    /\ Step([B EXCEPT !.curr_block = Fr.if_body,
                      !.ctl = <<BodyFrame(Fr.body, TRUE, Fr.after_if),
                                [Fr EXCEPT !.pc = "end"]>> \o Tail(B.ctl)],
            counter)

\* self.curr_block = after_if_block
visit_If_end ==
    /\ AtFrame("visit_If")
    /\ Fr.pc = "end"
    /\ Step([B EXCEPT !.curr_block = Fr.after_if, !.ctl = Tail(@)], counter)

\* visit_Break without the assertion: outside a loop the statement is added
\* and the visit goes on.
visit_Break_unchecked ==
    /\ AtVisit({"Break"})
    /\ IF Len(B.loop_stack) = 0
       THEN Step([B EXCEPT !.cfg = add_stmt(@, B.curr_block, Stmt(Cur)), !.ctl = Rest],
                 counter)
       ELSE Step([B EXCEPT
                    !.cfg = add_edge(add_stmt(@, B.curr_block, Stmt(Cur)),
                                     B.curr_block, Last(B.loop_stack), None),
                    !.ctl = Rest],
                 counter)

\* visit_Break that jumps to the guard of the loop, as a continue does.
visit_Break_to_guard ==
    /\ AtVisit({"Break"})
    /\ IF Len(B.loop_stack) = 0
       THEN Raise("AssertionError")
       ELSE Step([B EXCEPT
                    !.cfg = add_edge(add_stmt(@, B.curr_block, Stmt(Cur)),
                                     B.curr_block, Last(B.loop_guard_stack), None),
                    !.ctl = Rest],
                 counter)

visit_Break ==
    /\ AtVisit({"Break"})
    /\ IF Len(B.loop_stack) = 0
       THEN Raise("AssertionError")
       ELSE Step([B EXCEPT
                    !.cfg = add_edge(add_stmt(@, B.curr_block, Stmt(Cur)),
                                     B.curr_block, Last(B.loop_stack), None),
                    !.ctl = Rest],
                 counter)

visit_Continue ==
    /\ AtVisit({"Continue"})
    /\ LET g1 == add_stmt(B.cfg, B.curr_block, Stmt(Cur))
       IN IF Len(B.loop_guard_stack) = 0
          THEN /\ builders' = [builders EXCEPT ![Len(builders)].cfg = g1]
               /\ err' = "AssertionError"
               /\ UNCHANGED <<names, inputs, counter, visited, retval, results>>
          ELSE Step([B EXCEPT
                       !.cfg = add_edge(g1, B.curr_block, Last(B.loop_guard_stack), None),
                       !.ctl = Rest],
                    counter)

IsIfExp(value) == value # <<>> /\ value[1].kind = "IfExp"

visit_Return ==
    /\ AtVisit({"Return"})
    /\ IF IsIfExp(Cur.value)
       THEN Step([B EXCEPT !.ifExp = TRUE,
                           !.ctl = <<BodyFrame(Children(Cur), FALSE, 0),
                                     [f |-> "visit_Return", pc |-> "end"]>> \o Rest],
                 counter)
       ELSE Step([B EXCEPT
                    !.cfg = new_block(
                               [add_stmt(@, B.curr_block, Stmt(Cur)) EXCEPT
                                   !.final_blocks = Append(@, B.curr_block)],
                               gen_block_id(counter)),
                    !.curr_block = gen_block_id(counter),
                    !.ctl = Rest],
                 gen_block_id(counter))

\* self.ifExp = False; self.curr_block = self.new_block()
visit_Return_end ==
    /\ AtFrame("visit_Return")
    /\ Step([B EXCEPT !.ifExp = FALSE,
                      !.cfg = new_block(@, gen_block_id(counter)),
                      !.curr_block = gen_block_id(counter),
                      !.ctl = Tail(@)],
            gen_block_id(counter))

\* _visit_IfExp: the if/else tree with one return per leaf.
RECURSIVE visit_IfExp_rec(_)
visit_IfExp_rec(node) ==
    <<[Node("If") EXCEPT
         !.value = node.value,
         !.body = IF IsIfExp(node.body) THEN visit_IfExp_rec(node.body[1])
                  ELSE <<[Node("Return") EXCEPT !.value = node.body]>>,
         !.orelse = IF IsIfExp(node.orelse) THEN visit_IfExp_rec(node.orelse[1])
                    ELSE <<[Node("Return") EXCEPT !.value = node.orelse]>>]>>

visit_IfExp ==
    /\ AtVisit({"IfExp"})
    /\ Step([B EXCEPT !.ctl = IF B.ifExp
                               THEN <<BodyFrame(visit_IfExp_rec(Cur), FALSE, 0)>> \o Rest
                               ELSE Rest],
            counter)

\* visit_Assert that does not record the block as final.
visit_Assert_not_final ==
    /\ AtVisit({"Assert"})
    /\ Step([AppendAndAdvance(B, Cur, gen_block_id(counter)) EXCEPT !.ctl = Rest],
            gen_block_id(counter))

visit_Assert ==
    /\ AtVisit({"Assert"})
    /\ Step([AppendAndAdvance([B EXCEPT !.cfg.final_blocks = Append(@, B.curr_block)],
                              Cur, gen_block_id(counter))
               EXCEPT !.ctl = Rest],
            gen_block_id(counter))

\* visit_Lambda calls add_FuncCFG without its argument.
visit_Lambda ==
    /\ AtVisit({"Lambda"})
    /\ Raise("TypeError")

combine_conditions(node_list) ==
    IF Len(node_list) = 1 THEN node_list[1]
    ELSE [Node("BoolOp") EXCEPT !.name = "And", !.value = node_list]

\* _visit_ListComp that nests the last generator outermost.
RECURSIVE visit_ListComp_rec_reversed(_, _, _)
visit_ListComp_rec_reversed(elt, generators, top) ==
    IF generators = <<>>
    THEN <<[Node("Expr") EXCEPT
              !.value = <<[Node("Call") EXCEPT !.name = "append",
                                               !.value = <<Name(top)>>,
                                               !.args = <<elt>>]>>]>>
    ELSE LET g == Last(generators)
             inner == visit_ListComp_rec_reversed(elt, Pop(generators), top)
         IN <<[Node("For") EXCEPT
                 !.name = g.name, !.value = g.value,
                 !.body = IF g.ifs # <<>>
                          THEN <<[Node("If") EXCEPT !.value = <<combine_conditions(g.ifs)>>,
                                                    !.body = inner]>>
                          ELSE inner]>>

\* _visit_ListComp, top being list_comp_stack[-1]: one for statement per
\* generator, the first outermost, an if statement for a generator's
\* conditions, and top.append(elt) innermost.
RECURSIVE visit_ListComp_rec(_, _, _)
visit_ListComp_rec(elt, generators, top) ==
    IF generators = <<>>
    THEN IF top # ""
         THEN <<[Node("Expr") EXCEPT
                   !.value = <<[Node("Call") EXCEPT !.name = "append",
                                                    !.value = <<Name(top)>>,
                                                    !.args = <<elt>>]>>]>>
         ELSE <<[Node("Expr") EXCEPT !.value = <<elt>>]>>
    ELSE LET g == Head(generators)
             inner == visit_ListComp_rec(elt, Tail(generators), top)
         IN <<[Node("For") EXCEPT
                 !.name = g.name, !.value = g.value,
                 !.body = IF g.ifs # <<>>
                          THEN <<[Node("If") EXCEPT !.value = <<combine_conditions(g.ifs)>>,
                                                    !.body = inner]>>
                          ELSE inner]>>

\* _visit_ListComp reads list_comp_stack[-1] once the generators are used up;
\* visit_ListComp generic-visits a Module of what it returns.
visit_ListComp ==
    /\ AtVisit({"ListComp"})
    /\ IF B.list_comp_stack = <<>>
       THEN Raise("IndexError")
       ELSE Step([B EXCEPT !.ctl = <<BodyFrame(visit_ListComp_rec(Cur.value[1], Cur.generators,
                                                                  Last(B.list_comp_stack)),
                                              FALSE, 0)>> \o Rest],
                 counter)

\* add_loop_block: the block that will hold the loop header.
\* add_loop_block that reuses the current block whatever it holds.
add_loop_block_always_reuse(b, bid) ==
    [b |-> b, loop_block |-> b.curr_block, c |-> bid - 1]

add_loop_block(b, bid) ==
    IF is_empty(b.cfg.blocks[b.curr_block]) /\ ~has_next(b.cfg.blocks[b.curr_block])
    THEN [b |-> b, loop_block |-> b.curr_block, c |-> bid - 1]
    ELSE [b |-> [b EXCEPT !.cfg = add_edge(new_block(@, bid), b.curr_block, bid, None)],
          loop_block |-> bid, c |-> bid]

visit_While ==
    /\ AtVisit({"While"})
    /\ LET lb == add_loop_block(B, gen_block_id(counter))
           loop_guard == lb.loop_block
           after_while == gen_block_id(lb.c)
           g1 == add_stmt(lb.b.cfg, loop_guard, Stmt(Cur))
           g2 == add_edge(new_block(g1, after_while), loop_guard, after_while, None)
           b2 == [lb.b EXCEPT !.loop_guard_stack = Append(@, loop_guard),
                              !.loop_stack = Append(@, after_while)]
       IN IF Cur.orelse = <<>>
          THEN LET while_body == gen_block_id(after_while)
                   g3 == add_edge(new_block(g2, while_body), loop_guard, while_body, None)
               IN Step([b2 EXCEPT
                          !.cfg = g3, !.curr_block = while_body,
                          !.ctl = <<BodyFrame(Cur.body, TRUE, loop_guard),
                                    [f |-> "visit_While", pc |-> "end", after |-> after_while,
                                     or_else |-> 0, orelse |-> <<>>]>> \o Rest],
                       while_body)
          ELSE LET or_else == gen_block_id(after_while)
                   while_body == gen_block_id(or_else)
                   g3 == add_edge(new_block(g2, or_else), loop_guard, or_else, None)
                   g4 == add_edge(new_block(g3, while_body), loop_guard, while_body, None)
               IN Step([b2 EXCEPT
                          !.cfg = g4, !.curr_block = while_body,
                          !.ctl = <<BodyFrame(Cur.body, TRUE, loop_guard),
                                    [f |-> "visit_While", pc |-> "orelse", after |-> after_while,
                                     or_else |-> or_else, orelse |-> Cur.orelse]>> \o Rest],
                       while_body)

\* visit_While that pops its entries before it visits the else clause.
visit_While_orelse_popped ==
    /\ AtFrame("visit_While")
    /\ Fr.pc = "orelse"
    /\ Step([B EXCEPT !.curr_block = Fr.or_else,
                      !.loop_stack = Pop(@),
                      !.loop_guard_stack = Pop(@),
                      !.ctl = <<BodyFrame(Fr.orelse, TRUE, Fr.after),
                                [Fr EXCEPT !.pc = "end"]>> \o Tail(B.ctl)],
            counter)

\* self.curr_block = or_else_block; populate_body_to_next_bid(node.orelse, after)
visit_While_orelse ==
    /\ AtFrame("visit_While")
    /\ Fr.pc = "orelse"
    /\ Step([B EXCEPT !.curr_block = Fr.or_else,
                      !.ctl = <<BodyFrame(Fr.orelse, TRUE, Fr.after),
                                [Fr EXCEPT !.pc = "end"]>> \o Tail(B.ctl)],
            counter)

\* The end of visit_While that leaves the guard on loop_guard_stack.
visit_While_end_keep_guard ==
    /\ AtFrame("visit_While")
    /\ Fr.pc = "end"
    /\ Step([B EXCEPT !.curr_block = Fr.after,
                      !.loop_stack = Pop(@),
                      !.ctl = Tail(@)],
            counter)

\* self.curr_block = after_block; loop_stack.pop(); loop_guard_stack.pop()
visit_While_end ==
    /\ AtFrame("visit_While")
    /\ Fr.pc = "end"
    /\ Step([B EXCEPT !.curr_block = Fr.after,
                      !.loop_stack = Pop(@),
                      !.loop_guard_stack = Pop(@),
                      !.ctl = Tail(@)],
            counter)

visit_For ==
    /\ AtVisit({"For"})
    /\ LET lb == add_loop_block(B, gen_block_id(counter))
           loop_guard == lb.loop_block
           for_block == gen_block_id(lb.c)
           after_for == gen_block_id(for_block)
           g1 == add_stmt(lb.b.cfg, loop_guard, Stmt(Cur))
           g2 == add_edge(new_block(g1, for_block), loop_guard, for_block, None)
           g3 == add_edge(new_block(g2, after_for), loop_guard, after_for, None)
           b2 == [lb.b EXCEPT !.loop_guard_stack = Append(@, loop_guard),
                              !.loop_stack = Append(@, after_for)]
       IN IF Cur.orelse = <<>>
          THEN Step([b2 EXCEPT
                       !.cfg = g3, !.curr_block = for_block,
                       !.ctl = <<BodyFrame(Cur.body, TRUE, loop_guard),
                                 [f |-> "visit_For", pc |-> "end", after |-> after_for,
                                  or_else |-> 0, orelse |-> <<>>]>> \o Rest],
                    after_for)
          ELSE LET or_else == gen_block_id(after_for)
                   g4 == add_edge(new_block(g3, or_else), loop_guard, or_else, None)
               IN Step([b2 EXCEPT
                          !.cfg = g4, !.curr_block = for_block,
                          !.ctl = <<BodyFrame(Cur.body, TRUE, loop_guard),
                                    [f |-> "visit_For", pc |-> "orelse", after |-> after_for,
                                     or_else |-> or_else, orelse |-> Cur.orelse]>> \o Rest],
                       or_else)

\* self.curr_block = or_else_block; populate_body_to_next_bid(node.orelse, after_for)
visit_For_orelse ==
    /\ AtFrame("visit_For")
    /\ Fr.pc = "orelse"
    /\ Step([B EXCEPT !.curr_block = Fr.or_else,
                      !.ctl = <<BodyFrame(Fr.orelse, TRUE, Fr.after),
                                [Fr EXCEPT !.pc = "end"]>> \o Tail(B.ctl)],
            counter)

\* self.curr_block = after_for_block; loop_stack.pop(); loop_guard_stack.pop()
visit_For_end ==
    /\ AtFrame("visit_For")
    /\ Fr.pc = "end"
    /\ Step([B EXCEPT !.curr_block = Fr.after,
                      !.loop_stack = Pop(@),
                      !.loop_guard_stack = Pop(@),
                      !.ctl = Tail(@)],
            counter)

----------------------------------------------------------------------------
(* visit_Try                                                               *)

\* The sentinel ast.Name(id=...) nodes that visit_Try puts in blocks and on edges.
Sentinel(id) == [Node("Name") EXCEPT !.name = id]

visit_Try ==
    /\ AtVisit({"Try"})
    /\ LET lb == add_loop_block(B, gen_block_id(counter))
           loop_guard == lb.loop_block
           after_try == gen_block_id(lb.c)
           g1 == add_stmt(lb.b.cfg, loop_guard, Stmt(Node("Try")))
           g2 == add_stmt(new_block(g1, after_try), after_try,
                          Stmt(Sentinel("handle errors")))
       IN Step([lb.b EXCEPT
                  !.cfg = g2, !.curr_block = loop_guard,
                  !.ctl = <<BodyFrame(Cur.body, TRUE, after_try),
                            [f |-> "visit_Try", pc |-> "handlers", node |-> Cur,
                             after_try |-> after_try, i |-> 1, after |-> 0]>> \o Rest],
               after_try)

\* One turn of `for handler in node.handlers`, up to the visit of its body;
\* with no handler left, what follows the loop up to the next body visited.
visit_Try_handlers ==
    /\ AtFrame("visit_Try")
    /\ Fr.pc = "handlers"
    /\ IF Fr.i <= Len(Fr.node.handlers)
       THEN LET handler == Fr.node.handlers[Fr.i]
                before_handler == gen_block_id(counter)
                after_handler == gen_block_id(before_handler)
                g1 == add_edge(new_block(B.cfg, before_handler),
                               Fr.after_try, before_handler,
                               IF handler.name # "" THEN <<handler.name>> ELSE <<"Error">>)
                g2 == add_stmt(new_block(g1, after_handler), after_handler,
                               Stmt(Sentinel("end except")))
            IN Step([B EXCEPT
                       !.cfg = g2, !.curr_block = before_handler,
                       !.ctl = <<BodyFrame(handler.body, TRUE, after_handler),
                                 [Fr EXCEPT !.pc = "handler_end",
                                            !.after = after_handler]>> \o Tail(B.ctl)],
                    after_handler)
       ELSE IF Fr.node.orelse # <<>>
       THEN LET before_else == gen_block_id(counter)
                after_else == gen_block_id(before_else)
                g1 == add_edge(new_block(B.cfg, before_else),
                               Fr.after_try, before_else, <<"No Error">>)
                g2 == add_stmt(new_block(g1, after_else), after_else,
                               Stmt(Sentinel("end no error")))
            IN Step([B EXCEPT
                       !.cfg = g2, !.curr_block = before_else,
                       !.ctl = <<BodyFrame(Fr.node.orelse, TRUE, after_else),
                                 [Fr EXCEPT !.pc = "else_end",
                                            !.after = after_else]>> \o Tail(B.ctl)],
                    after_else)
       ELSE Step([B EXCEPT !.curr_block = Fr.after_try,
                           !.ctl = <<[Fr EXCEPT !.pc = "finally"]>> \o Tail(B.ctl)],
                 counter)

\* The end of a handler without the edge from its exit block to after_try.
visit_Try_handler_end_unlinked ==
    /\ AtFrame("visit_Try")
    /\ Fr.pc = "handler_end"
    /\ Step([B EXCEPT !.ctl = <<[Fr EXCEPT !.pc = "handlers", !.i = @ + 1]>>
                              \o Tail(B.ctl)],
            counter)

\* self.add_edge(after_handler_block.bid, after_try_block.bid)
visit_Try_handler_end ==
    /\ AtFrame("visit_Try")
    /\ Fr.pc = "handler_end"
    /\ Step([B EXCEPT !.cfg = add_edge(@, Fr.after, Fr.after_try, None),
                      !.ctl = <<[Fr EXCEPT !.pc = "handlers", !.i = @ + 1]>>
                              \o Tail(B.ctl)],
            counter)

\* self.add_edge(after_else_block.bid, after_try_block.bid)
visit_Try_else_end ==
    /\ AtFrame("visit_Try")
    /\ Fr.pc = "else_end"
    /\ Step([B EXCEPT !.cfg = add_edge(@, Fr.after, Fr.after_try, None),
                      !.ctl = <<[Fr EXCEPT !.pc = "finally"]>> \o Tail(B.ctl)],
            counter)

\* finally_block = self.new_block() and the rest of visit_Try.
visit_Try_finally ==
    /\ AtFrame("visit_Try")
    /\ Fr.pc = "finally"
    /\ LET finally_block == gen_block_id(counter)
           g1 == new_block(B.cfg, finally_block)
       IN IF Fr.node.finalbody # <<>>
          THEN LET after_finally == gen_block_id(finally_block)
                   g2 == new_block(add_edge(g1, Fr.after_try, finally_block,
                                            <<"Finally">>),
                                   after_finally)
               IN Step([B EXCEPT
                          !.cfg = g2, !.curr_block = finally_block,
                          !.ctl = <<BodyFrame(Fr.node.finalbody, TRUE, after_finally),
                                    [Fr EXCEPT !.pc = "end", !.after = after_finally]>>
                                  \o Tail(B.ctl)],
                       after_finally)
          ELSE Step([B EXCEPT
                       !.cfg = add_edge(g1, Fr.after_try, finally_block, None),
                       !.curr_block = finally_block,
                       !.ctl = Tail(@)],
                    finally_block)

\* self.curr_block = after_finally_block
visit_Try_end ==
    /\ AtFrame("visit_Try")
    /\ Fr.pc = "end"
    /\ Step([B EXCEPT !.curr_block = Fr.after, !.ctl = Tail(@)], counter)

----------------------------------------------------------------------------
(* Nested CFGs.                                                            *)

\* A parameter list that pairs the defaults with the first parameters.
arg_list_defaults_first(tree) ==
    [k \in 1..Len(tree.args) |->
        IF k <= Len(tree.defaults) THEN <<tree.args[k], <<tree.defaults[k]>> >>
        ELSE <<tree.args[k], None>>]

\* The parameter list add_FuncCFG pairs with the nested CFG: the first
\* len(args) - len(defaults) names with None, the rest with the defaults.
arg_list(tree) ==
    LET diff == Len(tree.args) - Len(tree.defaults)
        n == IF diff > 0 THEN diff ELSE 0
    IN [k \in 1..(n + Len(tree.defaults)) |->
            IF k <= n THEN <<tree.args[k], None>>
            ELSE <<tree.args[k], <<tree.defaults[k - n]>> >>]

\* CFGVisitor().build(name, ast.Module(body=body)), up to self.visit(tree),
\* called from the builder whose frames become ctl.
CallBuild(b, ctl, name, body) ==
    /\ builders' = [builders EXCEPT ![Len(builders)] = [b EXCEPT !.ctl = ctl]]
                   \o <<NewBuilder(name, [Node("Module") EXCEPT !.body = body],
                                   gen_block_id(counter))>>
    /\ counter' = gen_block_id(counter)
    /\ UNCHANGED <<names, inputs, visited, retval, results, err>>

visit_FunctionDef ==
    /\ AtVisit({"FunctionDef"})
    /\ CallBuild([B EXCEPT !.cfg = add_stmt(@, B.curr_block, Stmt(Cur))],
                 <<[f |-> "add_FuncCFG", name |-> Cur.name, arg_list |-> arg_list(Cur)],
                   [f |-> "visit_FunctionDef"]>> \o Rest,
                 Cur.name, Cur.body)

\* generic_visit of an AsyncFunctionDef: add_stmt, add_FuncCFG, return.
generic_visit_AsyncFunctionDef ==
    /\ AtVisit({"AsyncFunctionDef"})
    /\ CallBuild([B EXCEPT !.cfg = add_stmt(@, B.curr_block, Stmt(Cur))],
                 <<[f |-> "add_FuncCFG", name |-> Cur.name, arg_list |-> arg_list(Cur)]>>
                 \o Rest,
                 Cur.name, Cur.body)

\* add_FuncCFG that keeps the entry a name already has.
add_FuncCFG_keep_first ==
    /\ AtFrame("add_FuncCFG")
    /\ Step([B EXCEPT
               !.cfg.func_cfgs = @ @@ (Fr.name :> [args |-> Fr.arg_list, cfg |-> retval]),
               !.ctl = Tail(@)],
            counter)

\* self.cfg.func_cfgs[tree.name] = (arg_list, func_cfg)
add_FuncCFG ==
    /\ AtFrame("add_FuncCFG")
    /\ Step([B EXCEPT
               !.cfg.func_cfgs = (Fr.name :> [args |-> Fr.arg_list, cfg |-> retval]) @@ @,
               !.ctl = Tail(@)],
            counter)

\* self.curr_block = self.add_edge(self.curr_block.bid, self.new_block().bid)
visit_FunctionDef_end ==
    /\ AtFrame("visit_FunctionDef")
    /\ Step([B EXCEPT
               !.cfg = add_edge(new_block(@, gen_block_id(counter)),
                                B.curr_block, gen_block_id(counter), None),
               !.curr_block = gen_block_id(counter),
               !.ctl = Tail(@)],
            gen_block_id(counter))

visit_ClassDef ==
    /\ AtVisit({"ClassDef"})
    /\ CallBuild([B EXCEPT !.cfg = add_stmt(@, B.curr_block, Stmt(Cur))],
                 <<[f |-> "add_ClassCFG", name |-> Cur.name],
                   [f |-> "visit_ClassDef"]>> \o Rest,
                 Cur.name, Cur.body)

\* self.cfg.class_cfgs[node.name] = class_cfg
add_ClassCFG ==
    /\ AtFrame("add_ClassCFG")
    /\ Step([B EXCEPT !.cfg.class_cfgs = (Fr.name :> retval) @@ @,
                      !.ctl = Tail(@)],
            counter)

\* self.curr_block = self.add_edge(self.curr_block.bid, self.new_block().bid)
visit_ClassDef_end ==
    /\ AtFrame("visit_ClassDef")
    /\ Step([B EXCEPT
               !.cfg = add_edge(new_block(@, gen_block_id(counter)),
                                B.curr_block, gen_block_id(counter), None),
               !.curr_block = gen_block_id(counter),
               !.ctl = Tail(@)],
            gen_block_id(counter))

----------------------------------------------------------------------------

Next ==
    \/ build
    \/ build_compact
    \/ build_return
    \/ reb_enter
    \/ reb_pair
    \/ reb_prev
    \/ reb_clear_prev
    \/ reb_recurse
    \/ reb_return
    \/ body_end
    \/ visit_Assign
    \/ visit_Assign_end
    \/ visit_Pass
    \/ visit_Call
    \/ generic_visit
    \/ visit_Expr
    \/ visit_If
    \/ visit_If_body
    \/ visit_If_end
    \/ visit_Break
    \/ visit_Continue
    \/ visit_Return
    \/ visit_Return_end
    \/ visit_IfExp
    \/ visit_Assert
    \/ visit_Lambda
    \/ visit_ListComp
    \/ visit_For
    \/ visit_For_orelse
    \/ visit_For_end
    \/ visit_Try
    \/ visit_Try_handlers
    \/ visit_Try_handler_end
    \/ visit_Try_else_end
    \/ visit_Try_finally
    \/ visit_Try_end
    \/ visit_FunctionDef
    \/ generic_visit_AsyncFunctionDef
    \/ add_FuncCFG
    \/ visit_FunctionDef_end
    \/ visit_ClassDef
    \/ add_ClassCFG
    \/ visit_ClassDef_end
    \/ visit_While
    \/ visit_While_orelse
    \/ visit_While_end

Spec == Init /\ [][Next]_vars

\* The builds, followed by a second run of the empty-block pass on the graph
\* the last build returned.
NextRerun ==
    \/ Next
    \/ rerun_begin
    \/ rerun_end

SpecRerun == Init /\ [][NextRerun]_vars

\* Guard merge on a chain A -> B -> C -> D (blocks 1, 2, 3, 4) with B and C
\* empty: results holds the chain and, after it, the graph each elimination
\* leaves.
ChainGuards == {None, <<"p">>, <<"q">>, <<"r">>, <<"And", "p", "q">>}

Chain(g1, g2, g3) ==
    LET b0 == [new_block(new_block(new_block(new_block(CFG("chain"), 1), 2), 3), 4)
                 EXCEPT !.start = 1]
        b1 == add_stmt(add_stmt(b0, 1, Stmt(SAssign)), 4, Stmt(SAssign))
    IN add_edge(add_edge(add_edge(b1, 1, 2, g1), 2, 3, g2), 3, 4, g3)

InitChain ==
    /\ inputs = <<>>
    /\ counter = 4
    /\ visited = {}
    /\ builders = <<>>
    /\ retval = NoCFG
    /\ results \in { <<Chain(g1, g2, g3)>> : g1, g2, g3 \in ChainGuards }
    /\ err = "none"
    /\ names = 0

eliminate_empty ==
    /\ inputs = <<>>
    /\ results # <<>>
    /\ \E bid \in DOMAIN Last(results).blocks :
          /\ is_empty(Last(results).blocks[bid])
          /\ Last(results).blocks[bid].prev # <<>>
          /\ results' = Append(results, eliminate(Last(results), bid))
    /\ UNCHANGED <<names, inputs, counter, visited, builders, retval, err>>

NextChain == eliminate_empty

SpecChain == InitChain /\ [][NextChain]_vars

----------------------------------------------------------------------------
(* What the properties below speak about.                                  *)

\* The innermost build call is about to return B.cfg.
AtReturn == AtFrame("build") /\ Fr.pc = "return"

Range(s) == { s[i] : i \in 1..Len(s) }

\* The blocks reachable from start along successor lists.
RECURSIVE Closure(_, _)
Closure(g, S) ==
    LET T == S \cup UNION { Range(g.blocks[b].next) \cap DOMAIN g.blocks : b \in S }
    IN IF T = S THEN S ELSE Closure(g, T)

Reach(g) == Closure(g, {g.start} \cap DOMAIN g.blocks)

NoDup(s) == \A i, j \in 1..Len(s) : s[i] = s[j] => i = j

\* The CFGs a CFG holds, itself included, at any depth.
RECURSIVE Nested(_)
Nested(g) ==
    <<g>> \o
    (LET F == g.func_cfgs
         C == g.class_cfgs
         RECURSIVE Cat(_, _, _)
         Cat(m, ks, isf) ==
             IF ks = {} THEN <<>>
             ELSE LET k == CHOOSE x \in ks : TRUE
                  IN Nested(IF isf THEN m[k].cfg ELSE m[k]) \o Cat(m, ks \ {k}, isf)
     IN Cat(F, DOMAIN F, TRUE) \o Cat(C, DOMAIN C, FALSE))

RECURSIVE Flatten(_)
Flatten(gs) == IF gs = <<>> THEN <<>> ELSE Nested(Head(gs)) \o Flatten(Tail(gs))

\* Every CFG of the process: those returned by the top-level builds, those
\* under construction, and the CFGs nested in them.  A nested CFG that has
\* been returned and is not yet stored is in retval alone.
Pending ==
    IF builders # <<>> /\ B.ctl # <<>> /\ Fr.f \in {"add_FuncCFG", "add_ClassCFG"}
    THEN <<retval>> ELSE <<>>

Forest == Flatten(results \o [i \in 1..Len(builders) |-> builders[i].cfg] \o Pending)

\* The statements of a body that belong to its own CFG: those not inside a
\* nested function or class body.
RECURSIVE Own(_)
Own(body) ==
    IF body = <<>> THEN <<>>
    ELSE LET n == Head(body)
             RECURSIVE OwnHandlers(_)
             OwnHandlers(hs) ==
                 IF hs = <<>> THEN <<>> ELSE Own(Head(hs).body) \o OwnHandlers(Tail(hs))
         IN <<n>>
            \o (IF n.kind \in {"If", "While", "For", "Try"}
                THEN Own(n.body) \o OwnHandlers(n.handlers) \o Own(n.orelse)
                     \o Own(n.finalbody)
                ELSE <<>>)
            \o Own(Tail(body))

\* The number of return statements a conditional expression is rewritten to.
RECURSIVE Leaves(_)
Leaves(e) ==
    IF e.kind = "IfExp"
    THEN Leaves(e.body[1]) + Leaves(e.orelse[1])
    ELSE 1

RECURSIVE SumSeq(_)
SumSeq(s) == IF s = <<>> THEN 0 ELSE Head(s) + SumSeq(Tail(s))

\* The return and assert statements visited for a body, synthesized returns
\* included.
Exits(body) ==
    LET own == Own(body)
    IN SumSeq([i \in 1..Len(own) |->
                 IF own[i].kind = "Return"
                 THEN (IF IsIfExp(own[i].value) THEN Leaves(own[i].value[1]) ELSE 1)
                 ELSE IF own[i].kind = "Assert" THEN 1 ELSE 0])

ExitsHeld(g) ==
    LET ids == DOMAIN g.blocks
        RECURSIVE Count(_)
        Count(S) ==
            IF S = {} THEN 0
            ELSE LET b == CHOOSE x \in S : TRUE
                 IN Cardinality({ i \in 1..Len(g.blocks[b].stmts) :
                                    g.blocks[b].stmts[i].kind \in {"Return", "Assert"} })
                    + Count(S \ {b})
    IN Count(ids)

----------------------------------------------------------------------------
(* Properties.                                                             *)

\* C1: in the CFG build returns, every block reachable from start that has
\* no statement has no successor.
C1_CompactionComplete ==
    AtReturn =>
        \A b \in Reach(B.cfg) :
            is_empty(B.cfg.blocks[b]) => ~has_next(B.cfg.blocks[b])

\* C2, as claimed: in the CFG build returns, start is a key of blocks and has
\* no predecessor.
C2_StartNoPredecessor ==
    AtReturn =>
        /\ B.cfg.start \in DOMAIN B.cfg.blocks
        /\ B.cfg.blocks[B.cfg.start].prev = <<>>

\* C2, amended: start is a key of blocks, and it has a predecessor only when
\* add_loop_block reused it as the guard of a while or for loop, so that the
\* first statement it holds is that loop's header.
C2_StartPredecessorOnlyLoopGuard ==
    AtReturn =>
        /\ B.cfg.start \in DOMAIN B.cfg.blocks
        /\ LET start == B.cfg.blocks[B.cfg.start]
           IN start.prev # <<>> =>
                 /\ start.stmts # <<>>
                 /\ start.stmts[1].kind \in {"While", "For"}

C2_Witness ==
    /\ AtReturn
    /\ B.tree.body[1].kind = "While"
    /\ B.cfg.blocks[B.cfg.start].prev # <<>>

\* C3: in the CFG build returns, the edge map and the adjacency lists agree
\* in both directions.
EdgesAgree(g) ==
    /\ \A e \in DOMAIN g.edges :
          /\ e[1] \in DOMAIN g.blocks /\ e[2] \in DOMAIN g.blocks
          /\ InSeq(e[2], g.blocks[e[1]].next)
          /\ InSeq(e[1], g.blocks[e[2]].prev)
    /\ \A a \in DOMAIN g.blocks :
          /\ \A b \in Range(g.blocks[a].next) : <<a, b>> \in DOMAIN g.edges
          /\ \A p \in Range(g.blocks[a].prev) : <<p, a>> \in DOMAIN g.edges

C4_FlowsMirrorEdges ==
    /\ \A i \in 1..Len(builders) :
          builders[i].cfg.flows = DOMAIN builders[i].cfg.edges
    /\ retval.flows = DOMAIN retval.edges

\* The pass has just rewired a predecessor of an empty block to a successor.
C4_Witness ==
    /\ AtFrame("reb")
    /\ Fr.pc = "elim"
    /\ Fr.j > 1
    /\ B.cfg.edges # EmptyMap

\* C5: in the CFG build returns, no successor list and no predecessor list
\* holds a block id twice.
C5_NoDuplicateEdges ==
    AtReturn =>
        \A b \in DOMAIN B.cfg.blocks :
            NoDup(B.cfg.blocks[b].next) /\ NoDup(B.cfg.blocks[b].prev)

\* C6: the CFGs of the process share no block id, every id is positive and
\* at most the counter, and the counter never goes back: a block that appears
\* gets an id above every id drawn before.
IdsOf(gs) == UNION { DOMAIN gs[i].blocks : i \in 1..Len(gs) }

IdsDisjoint ==
    LET gs == Forest
    IN /\ \A i, j \in 1..Len(gs) :
             i # j => DOMAIN gs[i].blocks \cap DOMAIN gs[j].blocks = {}
       /\ IdsOf(gs) \subseteq 1..counter

C6_IdsUnique ==
    /\ []IdsDisjoint
    /\ [][/\ counter' >= counter
          /\ IdsOf(Forest') \ IdsOf(Forest) \subseteq (counter + 1)..counter']_vars

\* A second build has returned, and CFGs are nested.
C6_Witness ==
    /\ Len(results) = 2
    /\ Len(Forest) >= 3
    /\ DOMAIN results[2].blocks # {}

\* C7: every return and every assert visited for a body is held by a block
\* of that body's CFG, and every block that holds one is in final_blocks.
C7_ExitsAreFinal ==
    AtReturn =>
        /\ \A b \in DOMAIN B.cfg.blocks :
              (\E i \in 1..Len(B.cfg.blocks[b].stmts) :
                  B.cfg.blocks[b].stmts[i].kind \in {"Return", "Assert"})
              => InSeq(b, B.cfg.final_blocks)
        /\ ExitsHeld(B.cfg) = Exits(B.tree.body)

\* A CFG is returned for a body that returns a conditional expression, its
\* returns behind at least one statement that is not reachable.
C7_Witness ==
    /\ AtReturn
    /\ Len(B.cfg.final_blocks) >= 2
    /\ \E i \in 1..Len(B.tree.body) :
          B.tree.body[i].kind = "Return" /\ IsIfExp(B.tree.body[i].value)

\* C8, as claimed: for every function and class definition of a body there
\* is one entry of its own in func_cfgs (class_cfgs) of the body's CFG.
DefsOf(body, kinds) ==
    LET own == Own(body)
    IN { i \in 1..Len(own) : own[i].kind \in kinds }

NamesOf(body, kinds) ==
    LET own == Own(body)
    IN { own[i].name : i \in DefsOf(body, kinds) }

C9_NeverRaises == err \in {"none", "AssertionError"}

\* C10: a break visited with an empty loop_stack, or a continue visited with
\* an empty loop_guard_stack, ends the build with the fatal error and adds no
\* edge; the builder of a nested body starts with both stacks empty, and no
\* edge of a CFG leaves the CFG's own blocks.
EdgesOfAll == [i \in 1..Len(builders) |-> builders[i].cfg.edges]

C10_BreakOutsideLoopFatal ==
    /\ [][/\ (AtVisit({"Break"}) /\ B.loop_stack = <<>>)
               => (err' = "AssertionError" /\ EdgesOfAll' = EdgesOfAll)
          /\ (AtVisit({"Continue"}) /\ B.loop_guard_stack = <<>>)
               => (err' = "AssertionError" /\ EdgesOfAll' = EdgesOfAll)
          /\ Len(builders') > Len(builders)
               => (builders'[Len(builders')].loop_stack = <<>>
                   /\ builders'[Len(builders')].loop_guard_stack = <<>>)]_vars
    /\ [](\A i \in 1..Len(builders) :
            \A e \in DOMAIN builders[i].cfg.edges :
                e[1] \in DOMAIN builders[i].cfg.blocks
                /\ e[2] \in DOMAIN builders[i].cfg.blocks)

\* The build has failed on a break in a function body defined inside a loop.
C10_Witness ==
    /\ err = "AssertionError"
    /\ Len(builders) = 2
    /\ builders[1].loop_stack # <<>>
    /\ AtFrameOf(builders[2], "Break")

\* C11: a second run of the empty-block pass from start, visiting again every
\* block reachable from start, leaves every block's prev and next lists, the
\* edges and the flows as the first run left them.
Rerun == Len(results) = Len(inputs) + 1

C11_EliminationIdempotent ==
    Rerun =>
        LET first == results[Len(inputs)]
            second == results[Len(inputs) + 1]
        IN /\ second.blocks = first.blocks
           /\ second.edges = first.edges
           /\ second.flows = first.flows

\* C12, as claimed: on the chain, the guard stored on (A, D) once B and C are
\* eliminated is the same value whichever of the two is eliminated first.
Collapsed == inputs = <<>> /\ Len(results) = 3

GuardAD(g) == g.edges[<<1, 4>>]

C12_GuardMergeAssociative ==
    Collapsed =>
        /\ GuardAD(results[3]) = GuardAD(eliminate(eliminate(results[1], 2), 3))
        /\ GuardAD(results[3]) = GuardAD(eliminate(eliminate(results[1], 3), 2))

\* C12, amended: in either order the guard stored on (A, D) is a conjunction
\* of the operands of the guards that are not none, in the order g1, g2, g3;
\* it is the same value in both orders when one of the three guards is none.
Operands(cond) == SelectSeq(cond, LAMBDA x : x # "And")

C12_GuardMergeSameOperands ==
    Collapsed =>
        LET g1 == results[1].edges[<<1, 2>>]
            g2 == results[1].edges[<<2, 3>>]
            g3 == results[1].edges[<<3, 4>>]
        IN /\ <<1, 4>> \in DOMAIN results[3].edges
           /\ Operands(GuardAD(results[3])) = Operands(g1) \o Operands(g2) \o Operands(g3)
           /\ None \in {g1, g2, g3} =>
                 /\ GuardAD(results[3]) = GuardAD(eliminate(eliminate(results[1], 2), 3))
                 /\ GuardAD(results[3]) = GuardAD(eliminate(eliminate(results[1], 3), 2))

\* Both empty blocks are eliminated, C first, on a chain of three guards.
C12_Witness ==
    /\ Collapsed
    /\ results[2].blocks[3].prev = <<>>
    /\ None \notin { results[1].edges[e] : e \in DOMAIN results[1].edges }
    /\ GuardAD(results[3]) = <<"And", "p", "And", "q", "r">>

\* C13: in the CFG build returns, no block other than start has an empty
\* predecessor list together with a successor that is reachable from start.
C13_NoOrphanIntoReachable ==
    AtReturn =>
        \A b \in (DOMAIN B.cfg.blocks) \ {B.cfg.start} :
            ~ /\ B.cfg.blocks[b].prev = <<>>
              /\ \E n \in Range(B.cfg.blocks[b].next) : n \in Reach(B.cfg)

\* The node a visited simple statement leaves in a block: for an expression
\* statement, the call it evaluates.
Held(n) == IF n.kind = "Expr" THEN Stmt(n.value[1]) ELSE Stmt(n)

Emits(n) ==
    \/ n.kind \in {"Assign", "Pass", "Assert"}
    \/ n.kind = "Expr" /\ n.value[1].kind = "Call"

Simple(n) == n.kind \in {"Assign", "Pass", "Assert", "Expr"}

All(P(_), ns) == \A i \in 1..Len(ns) : P(ns[i])

\* The block that ends the straight line of blocks from x to sb, 0 when the
\* way from x forks or ends before sb.
RECURSIVE EndOf(_, _, _, _)
EndOf(g, x, sb, fuel) ==
    IF fuel = 0 \/ x \notin DOMAIN g.blocks \/ Len(g.blocks[x].next) # 1 THEN 0
    ELSE IF g.blocks[x].next[1] = sb THEN x
    ELSE EndOf(g, g.blocks[x].next[1], sb, fuel - 1)

\* The body of the module being returned ends with an if/else and one more
\* statement.
EndsWithIfElse ==
    /\ AtReturn
    /\ Len(builders) = 1
    /\ Len(B.tree.body) >= 2
    /\ B.tree.body[Len(B.tree.body) - 1].kind = "If"
    /\ B.tree.body[Len(B.tree.body) - 1].orelse # <<>>
    /\ \A i \in 1..(Len(B.tree.body) - 2) : Emits(B.tree.body[i])
    /\ Emits(Last(B.tree.body))

TheIf == B.tree.body[Len(B.tree.body) - 1]

\* The block of the If has two successors, the entries of the then branch and
\* of the else branch; the block of the statement after the if has two
\* predecessors, the blocks that hold the last statement of either branch,
\* and both edges into it are unguarded.
Reconverges ==
    LET g == B.cfg
        n == Cardinality(DOMAIN g.blocks)
    IN \E ifb, sb \in DOMAIN g.blocks :
          /\ g.blocks[ifb].stmts # <<>>
          /\ Last(g.blocks[ifb].stmts) = Stmt(TheIf)
          /\ g.blocks[sb].stmts = <<Held(Last(B.tree.body))>>
          /\ Len(g.blocks[ifb].next) = 2
          /\ LET t == g.blocks[ifb].next[1]
                 e == g.blocks[ifb].next[2]
                 tend == EndOf(g, t, sb, n)
                 eend == EndOf(g, e, sb, n)
             IN /\ t # e
                /\ tend # 0 /\ eend # 0 /\ tend # eend
                /\ g.blocks[t].stmts # <<>>
                /\ Head(g.blocks[t].stmts) = Held(Head(TheIf.body))
                /\ g.blocks[e].stmts # <<>>
                /\ Head(g.blocks[e].stmts) = Held(Head(TheIf.orelse))
                /\ g.blocks[tend].stmts # <<>>
                /\ Last(g.blocks[tend].stmts) = Held(Last(TheIf.body))
                /\ g.blocks[eend].stmts # <<>>
                /\ Last(g.blocks[eend].stmts) = Held(Last(TheIf.orelse))
                /\ Len(g.blocks[sb].prev) = 2
                /\ Range(g.blocks[sb].prev) = {tend, eend}
                /\ g.edges[<<tend, sb>>] = None
                /\ g.edges[<<eend, sb>>] = None

EndsWithWhileBreak ==
    /\ AtReturn
    /\ Len(builders) = 1
    /\ Len(B.tree.body) >= 2
    /\ LET w == B.tree.body[Len(B.tree.body) - 1]
       IN /\ w.kind = "While"
          /\ w.orelse = <<>>
          /\ Len(w.body) = 2
          /\ w.body[1].kind = "If"
          /\ w.body[1].body = <<Node("Break")>>
          /\ w.body[1].orelse = <<>>
          /\ Simple(w.body[2])
    /\ \A i \in 1..(Len(B.tree.body) - 2) : Emits(B.tree.body[i])
    /\ Emits(Last(B.tree.body))

TheWhile == B.tree.body[Len(B.tree.body) - 1]

\* C15: the loop guard has two successors, the body entry and after_while,
\* which holds the statement after the loop; the block of the break has
\* after_while as its only successor; after_while has two predecessors, the
\* guard and the block of the break; the last block of the body has an edge
\* back to the guard.
C15_WhileBreak ==
    EndsWithWhileBreak =>
        LET g == B.cfg
            t == TheWhile.body[2]
        IN \E guard, ifb, brk, sb \in DOMAIN g.blocks :
              /\ g.blocks[guard].stmts # <<>>
              /\ Last(g.blocks[guard].stmts) = Stmt(TheWhile)
              /\ g.blocks[sb].stmts = <<Held(Last(B.tree.body))>>
              /\ g.blocks[ifb].stmts = <<Stmt(TheWhile.body[1])>>
              /\ g.blocks[brk].stmts = <<Node("Break")>>
              /\ Len(g.blocks[guard].next) = 2
              /\ Range(g.blocks[guard].next) = {ifb, sb}
              /\ g.blocks[brk].next = <<sb>>
              /\ g.blocks[brk].prev = <<ifb>>
              /\ Len(g.blocks[sb].prev) = 2
              /\ Range(g.blocks[sb].prev) = {guard, brk}
              /\ IF Emits(t)
                 THEN \E tb \in DOMAIN g.blocks :
                         /\ g.blocks[tb].stmts = <<Held(t)>>
                         /\ g.blocks[ifb].next = <<brk, tb>>
                         /\ g.blocks[tb].next = <<guard>>
                         /\ <<tb, guard>> \in DOMAIN g.edges
                         /\ InSeq(tb, g.blocks[guard].prev)
                 ELSE /\ g.blocks[ifb].next = <<brk, guard>>
                      /\ <<ifb, guard>> \in DOMAIN g.edges
                      /\ InSeq(ifb, g.blocks[guard].prev)

\* A loop with a break, after an assignment and before a call, is returned.
C15_Witness ==
    /\ EndsWithWhileBreak
    /\ Len(B.tree.body) = 3
    /\ TheWhile.body[2] = SAssign
    /\ Last(B.tree.body) = SCall
    /\ \E b \in DOMAIN B.cfg.blocks :
          B.cfg.blocks[b].stmts = <<Node("Break")>> /\ Len(B.cfg.blocks[b].next) = 1

\* The module being returned holds one try statement, at the top level, with
\* handlers and a finally clause, whose clauses are made of simple statements.
TryAt == { i \in 1..Len(B.tree.body) : B.tree.body[i].kind = "Try" }

TheTry == B.tree.body[CHOOSE i \in TryAt : TRUE]

HasTryFinally ==
    /\ AtReturn
    /\ Len(builders) = 1
    /\ Cardinality(TryAt) = 1
    /\ TheTry.handlers # <<>>
    /\ TheTry.finalbody # <<>>
    /\ All(Simple, TheTry.body)
    /\ \A i \in 1..Len(TheTry.handlers) : All(Simple, TheTry.handlers[i].body)
    /\ All(Simple, TheTry.orelse)
    /\ All(Simple, TheTry.finalbody)
    /\ \A i \in 1..Len(B.tree.body) : i \notin TryAt => Emits(B.tree.body[i])

\* Every statement of the try body, of the handlers, of the else clause and
\* of the finally clause leaves a node in a block.
TryEmits ==
    /\ All(Emits, TheTry.body)
    /\ \A i \in 1..Len(TheTry.handlers) : All(Emits, TheTry.handlers[i].body)
    /\ All(Emits, TheTry.orelse)
    /\ All(Emits, TheTry.finalbody)

\* What the first and the last statement of ns that leave a node leave; dflt
\* when none does.
FirstEmitted(ns, dflt) ==
    LET E == { i \in 1..Len(ns) : Emits(ns[i]) }
    IN IF E = {} THEN dflt ELSE Held(ns[CHOOSE i \in E : \A j \in E : i <= j])

LastEmitted(ns, dflt) ==
    LET E == { i \in 1..Len(ns) : Emits(ns[i]) }
    IN IF E = {} THEN dflt ELSE Held(ns[CHOOSE i \in E : \A j \in E : i >= j])

\* (a) after_try, the block of the sentinel "handle errors", has among its
\* predecessors the block where the try body ends (the block of the Try node
\* itself when the body leaves no node) and the exit block ("end except") of
\* every handler, one for each, and no other when there is no else clause;
\* (b) for each handler an edge goes from after_try to the handler's entry
\* (an empty block or its exit block when its body leaves no node), guarded
\* by its type or by "Error", with as many edges of a guard as handlers of
\* it; (c) exactly one edge goes from after_try to finally_block, and its
\* guard is "Finally".
TryTopology ==
    LET g == B.cfg
        hs == TheTry.handlers
        n == Cardinality(DOMAIN g.blocks)
        Bs == DOMAIN g.blocks
        EndExcept == Stmt(Sentinel("end except"))
    IN \E at, tb, fb \in Bs :
          /\ g.blocks[at].stmts = <<Stmt(Sentinel("handle errors"))>>
          /\ g.blocks[tb].stmts # <<>>
          /\ Last(g.blocks[tb].stmts) = LastEmitted(TheTry.body, Stmt(Node("Try")))
          /\ InSeq(tb, g.blocks[at].prev)
          /\ <<tb, at>> \in DOMAIN g.edges
          /\ LET HandlerExits == { x \in Bs :
                              /\ g.blocks[x].stmts # <<>>
                              /\ Last(g.blocks[x].stmts) = EndExcept
                              /\ InSeq(x, g.blocks[at].prev)
                              /\ <<x, at>> \in DOMAIN g.edges }
                 guard(i) == IF hs[i].name # "" THEN <<hs[i].name>> ELSE <<"Error">>
             IN /\ Cardinality(HandlerExits) = Len(hs)
                /\ \A i \in 1..Len(hs) :
                       /\ \E entry \in Bs, exit \in HandlerExits :
                             /\ \/ /\ entry = exit
                                   /\ ~ \E k \in 1..Len(hs[i].body) : Emits(hs[i].body[k])
                                \/ /\ Head(g.blocks[entry].stmts \o <<EndExcept>>)
                                        = FirstEmitted(hs[i].body, EndExcept)
                                   /\ EndOf(g, entry, exit, n) # 0
                             /\ <<at, entry>> \in DOMAIN g.edges
                             /\ g.edges[<<at, entry>>] = guard(i)
                       /\ Cardinality({ e \in DOMAIN g.edges :
                                          e[1] = at /\ g.edges[e] = guard(i) })
                            = Cardinality({ j \in 1..Len(hs) : guard(j) = guard(i) })
                /\ TheTry.orelse = <<>> =>
                       /\ Len(g.blocks[at].prev) = Len(hs) + 1
                       /\ Range(g.blocks[at].prev) = {tb} \cup HandlerExits
          /\ g.blocks[fb].prev = <<at>>
          /\ All(Emits, TheTry.finalbody) =>
                /\ g.blocks[fb].stmts # <<>>
                /\ Head(g.blocks[fb].stmts) = Held(Head(TheTry.finalbody))
          /\ { e \in DOMAIN g.edges : e[1] = at /\ g.edges[e] = <<"Finally">> }
                = {<<at, fb>>}
          /\ Cardinality({ i \in 1..Len(g.blocks[at].next) : g.blocks[at].next[i] = fb })
                = 1

DefThenStmt ==
    /\ AtReturn
    /\ Len(builders) = 1
    /\ Len(B.tree.body) = 2
    /\ B.tree.body[1].kind = "FunctionDef"
    /\ Len(B.tree.body[1].body) = 1
    /\ B.tree.body[1].body[1].kind = "Return"
    /\ Len(B.tree.body[1].defaults) <= Len(B.tree.body[1].args)
    /\ Emits(B.tree.body[2])

ListCompAt ==
    { i \in 1..Len(B.tree.body) :
        /\ B.tree.body[i].kind = "Assign"
        /\ B.tree.body[i].value[1].kind = "ListComp" }

TheListCompAt == CHOOSE i \in ListCompAt : TRUE

HasListCompAssign ==
    /\ AtReturn
    /\ Len(builders) = 1
    /\ Cardinality(ListCompAt) = 1
    /\ \A i \in 1..Len(B.tree.body) : i \notin ListCompAt => Emits(B.tree.body[i])

\* The blocks met from x by following, n - 1 times, the first successor; 0
\* from where there is none.
RECURSIVE FirstSuccessors(_, _, _)
FirstSuccessors(g, x, n) ==
    IF n = 0 THEN <<>>
    ELSE <<x>> \o FirstSuccessors(g,
                    IF x \in DOMAIN g.blocks /\ g.blocks[x].next # <<>>
                    THEN g.blocks[x].next[1] ELSE 0,
                    n - 1)

\* What the guards of the loops of the generators gs hold, the first
\* generator first: its for header and, when it has conditions, an if
\* header whose test is their conjunction.
RECURSIVE GeneratorHeaders(_)
GeneratorHeaders(gs) ==
    IF gs = <<>> THEN <<>>
    ELSE LET g == Head(gs)
             for == [Node("For") EXCEPT !.name = g.name, !.value = g.value]
             test == IF Len(g.ifs) = 1 THEN g.ifs[1]
                     ELSE [Node("BoolOp") EXCEPT !.name = "And", !.value = g.ifs]
         IN <<for>> \o (IF g.ifs = <<>> THEN <<>>
                        ELSE <<[Node("If") EXCEPT !.value = <<test>>]>>)
                   \o GeneratorHeaders(Tail(gs))

\* The lowering of y = [e for g1 ... for gk] into the temporary tmp, in flow
\* order from the start block: the statements before the assignment, a block
\* with tmp = [], the guards of the generators nested in generator order,
\* lowered blocks that bind temporaries, and a block with tmp.append(arg)
\* that flows back to the innermost guard; the loop of every generator but
\* the first exits to the guard around it, the first to a block with
\* y = tmp, which the statements after the assignment follow; no block
\* holds a ListComp node or the assignment itself.
Lowered(tmp, lowered, arg) ==
    LET g == B.cfg
        i == TheListCompAt
        a == B.tree.body[i]
        hs == GeneratorHeaders(a.value[1].generators)
        exp == [j \in 1..(i - 1) |-> Held(B.tree.body[j])]
               \o <<[Node("Assign") EXCEPT !.name = tmp, !.value = <<Node("List")>>]>>
               \o hs
        path == FirstSuccessors(g, g.start, Len(exp) + lowered + 1)
        ap == path[Len(path)]
        guards == { j \in 1..Len(exp) : exp[j].kind = "For" }
        first == CHOOSE j \in guards : \A k \in guards : j <= k
        last == CHOOSE j \in guards : \A k \in guards : j >= k
        outer(j) == CHOOSE k \in guards : k < j /\ \A m \in guards : m < j => m <= k
        after == FirstSuccessors(g, g.blocks[path[first]].next[2], Len(B.tree.body) - i + 1)
    IN /\ \A j \in 1..Len(path) : path[j] \in DOMAIN g.blocks
       /\ \A j \in 1..Len(exp) : g.blocks[path[j]].stmts = <<exp[j]>>
       /\ \A j \in 1..lowered :
             /\ Len(g.blocks[path[Len(exp) + j]].stmts) = 1
             /\ g.blocks[path[Len(exp) + j]].stmts[1].kind = "Assign"
             /\ InSeq(g.blocks[path[Len(exp) + j]].stmts[1].name, TmpNames)
             /\ g.blocks[path[Len(exp) + j]].stmts[1].name # tmp
             /\ g.blocks[path[Len(exp) + j]].next = <<path[Len(exp) + j + 1]>>
       /\ lowered > 0 => g.blocks[path[Len(path) - 1]].stmts[1].name = arg.name
       /\ g.blocks[ap].stmts =
             <<[Node("Call") EXCEPT !.name = "append", !.value = <<Name(tmp)>>,
                                    !.args = <<arg>>]>>
       /\ g.blocks[ap].next = <<path[last]>>
       /\ \A j \in guards :
             /\ Len(g.blocks[path[j]].next) = 2
             /\ j # first => g.blocks[path[j]].next[2] = path[outer(j)]
       /\ \A j \in 1..Len(after) : after[j] \in DOMAIN g.blocks
       /\ g.blocks[after[1]].stmts =
             <<[Node("Assign") EXCEPT !.name = a.name, !.value = <<Name(tmp)>>]>>
       /\ \A j \in 2..Len(after) : g.blocks[after[j]].stmts = <<Held(B.tree.body[i + j - 1])>>
       /\ \A b \in DOMAIN g.blocks : \A j \in 1..Len(g.blocks[b].stmts) :
             /\ g.blocks[b].stmts[j].kind # "ListComp"
             /\ g.blocks[b].stmts[j] # a
             /\ \A k \in 1..Len(g.blocks[b].stmts[j].value) :
                   g.blocks[b].stmts[j].value[k].kind # "ListComp"

\* C18, as claimed: the innermost block holds tmp.append(e), e being the
\* element of the comprehension.
C18_ListCompLowering ==
    HasListCompAssign =>
        \E tmp \in Range(TmpNames) :
            Lowered(tmp, 0, B.tree.body[TheListCompAt].value[1].value[1])

\* How deep calls nest in the arguments of calls.
MaxCallDepth == 2

\* C18, amended: it holds tmp.append(e) when e is not a call; when e is a
\* call it holds tmp.append(t), t being a temporary that the block before
\* it assigns, after blocks that assign the temporaries t is computed from.
C18_ListCompLoweringCalls ==
    HasListCompAssign =>
        LET e == B.tree.body[TheListCompAt].value[1].value[1]
        IN \E tmp \in Range(TmpNames) :
              IF e.kind = "Call"
              THEN \E n \in 1..MaxCallDepth : \E t \in Range(TmpNames) :
                      Lowered(tmp, n, Name(t))
              ELSE Lowered(tmp, 0, e)

\* A comprehension of two generators, both with conditions, is returned
\* lowered, after a statement and before another.
C18_Witness ==
    /\ HasListCompAssign
    /\ TheListCompAt = 2
    /\ Len(B.tree.body) = 3
    /\ Len(B.tree.body[2].value[1].generators) = 2
    /\ Len(B.tree.body[2].value[1].generators[1].ifs) = 1
    /\ Len(B.tree.body[2].value[1].generators[2].ifs) = 2
    /\ Lowered("tmp1", 0, Name("e"))

\* C19: between two visits of a builder, a block that holds a break or a
\* continue holds it last and has exactly one successor, and the cursor is
\* another block, one with no predecessor.
C19_BreakSealsBlock ==
    (Active /\ AtFrame("body")) =>
        \A bid \in DOMAIN B.cfg.blocks :
            LET blk == B.cfg.blocks[bid]
            IN \A j \in 1..Len(blk.stmts) :
                  blk.stmts[j].kind \in {"Break", "Continue"} =>
                      /\ j = Len(blk.stmts)
                      /\ Len(blk.next) = 1
                      /\ B.curr_block # bid
                      /\ B.cfg.blocks[B.curr_block].prev = <<>>

\* The module being returned holds one loop with an else clause, at the top
\* level and not last; the loop holds no loop, and the statements of its
\* else clause and the other statements of the module leave a node.
LoopElseAt ==
    { i \in 1..Len(B.tree.body) :
        B.tree.body[i].kind \in {"While", "For"} /\ B.tree.body[i].orelse # <<>> }

TheLoopElseAt == CHOOSE i \in LoopElseAt : TRUE

HasLoopElse ==
    /\ AtReturn
    /\ Len(builders) = 1
    /\ Cardinality(LoopElseAt) = 1
    /\ TheLoopElseAt < Len(B.tree.body)
    /\ \A i \in 1..Len(B.tree.body) : i \notin LoopElseAt => Emits(B.tree.body[i])
    /\ All(Emits, B.tree.body[TheLoopElseAt].orelse)
    /\ \A j \in 1..Len(B.tree.body[TheLoopElseAt].body) :
          LET s == B.tree.body[TheLoopElseAt].body[j]
          IN \/ Emits(s)
             \/ s.kind \in {"Break", "Continue"}
             \/ s.kind = "If" /\ s.orelse = <<>> /\ s.body = <<Node("Break")>>

\* C20: the guard of a loop with an else clause has exactly two successors,
\* one of them the entry of the else clause; after_loop, the block the else
\* clause flows into, is not a successor of the guard and has no edge from it.
C20_LoopElseGuard ==
    HasLoopElse =>
        LET g == B.cfg
            loop == B.tree.body[TheLoopElseAt]
        IN \E gb, or_else \in DOMAIN g.blocks :
              LET else_path == FirstSuccessors(g, or_else, Len(loop.orelse) + 1)
                  after_loop == Last(else_path)
              IN /\ g.blocks[gb].stmts = <<Stmt(loop)>>
                 /\ InSeq(or_else, g.blocks[gb].next)
                 /\ g.blocks[or_else].stmts = <<Held(Head(loop.orelse))>>
                 /\ g.blocks[or_else].prev = <<gb>>
                 /\ Len(g.blocks[gb].next) = 2
                 /\ after_loop \in DOMAIN g.blocks
                 /\ g.blocks[after_loop].stmts # <<>>
                 /\ Head(g.blocks[after_loop].stmts) = Held(B.tree.body[TheLoopElseAt + 1])
                 /\ ~ InSeq(after_loop, g.blocks[gb].next)
                 /\ ~ InSeq(gb, g.blocks[after_loop].prev)
                 /\ <<gb, after_loop>> \notin DOMAIN g.edges

\* The module being returned is one of the modules with a raise followed by
\* a statement.
HasRaise == AtReturn /\ Len(builders) = 1 /\ B.tree \in RaisePrograms

\* C21: the raise of a module is the last statement of a block that has no
\* successor and no outgoing edge, and the assignment after it, in the same
\* body or after the enclosing statement, is held by another block.
C21_RaiseEndsBlock ==
    HasRaise =>
        \E bid \in DOMAIN B.cfg.blocks :
            LET blk == B.cfg.blocks[bid]
            IN /\ blk.stmts # <<>>
               /\ Last(blk.stmts) = SRaise
               /\ blk.next = <<>>
               /\ \A e \in DOMAIN B.cfg.edges : e[1] # bid
               /\ \A e \in B.cfg.flows : e[1] # bid
               /\ \E other \in DOMAIN B.cfg.blocks \ {bid} :
                     InSeq(SAssign, B.cfg.blocks[other].stmts)

\* C22: a visit of an assert appends the Assert node to the current block,
\* records that block in final_blocks, creates one block, makes it the only
\* new successor of the assert block over an edge guarded by the test of the
\* assert, and leaves the cursor on it.
C22_AssertEdgeGuarded ==
    [][ (AtVisit({"Assert"}) /\ err' = "none") =>
            LET cur == B.curr_block
                nb == builders'[Len(builders)]
                succ == nb.curr_block
            IN /\ nb.cfg.blocks[cur].stmts = Append(B.cfg.blocks[cur].stmts, Cur)
               /\ InSeq(cur, nb.cfg.final_blocks)
               /\ DOMAIN nb.cfg.blocks = DOMAIN B.cfg.blocks \cup {succ}
               /\ succ \notin DOMAIN B.cfg.blocks
               /\ nb.cfg.blocks[cur].next = Append(B.cfg.blocks[cur].next, succ)
               /\ nb.cfg.blocks[succ].prev = <<cur>>
               /\ <<cur, succ>> \in DOMAIN nb.cfg.edges
               /\ nb.cfg.edges[<<cur, succ>>] = <<Cur.value[1].name>> ]_vars

\* The module being returned is a definition of the given kind followed by
\* one statement that leaves a node; the body of the definition is one
\* statement.
DefOfKindThenStmt(kind) ==
    /\ AtReturn
    /\ Len(builders) = 1
    /\ Len(B.tree.body) = 2
    /\ B.tree.body[1].kind = kind
    /\ Len(B.tree.body[1].body) = 1
    /\ Emits(B.tree.body[2])

\* The definition is stored in func_cfgs under its name, and the enclosing
\* CFG holds the definition and the following statement in two blocks
\* joined by one unguarded edge.
DefSealsBlock ==
    LET def == B.tree.body[1]
        g == B.cfg
    IN /\ def.name \in DOMAIN g.func_cfgs
       /\ g.func_cfgs[def.name].cfg.name = def.name
       /\ \E b1, b2 \in DOMAIN g.blocks :
             /\ b1 # b2
             /\ g.blocks[b1].stmts = <<Stmt(def)>>
             /\ g.blocks[b2].stmts = <<Held(B.tree.body[2])>>
             /\ g.blocks[b1].next = <<b2>>
             /\ g.blocks[b2].prev = <<b1>>
             /\ <<b1, b2>> \in DOMAIN g.edges
             /\ g.edges[<<b1, b2>>] = None

\* C23: an async function definition leaves what a function definition
\* leaves: its node in the current block, a nested CFG in func_cfgs, and a
\* fresh successor block over an unguarded edge that holds the statement
\* after the definition.
C23_AsyncDefLikeDef == DefOfKindThenStmt("AsyncFunctionDef") => DefSealsBlock

----------------------------------------------------------------------------
(* Elimination of one empty block E with k predecessors and m successors:  *)
(* blocks 1..MaxFan may precede E, blocks E+1..E+MaxFan may follow it, all *)
(* of them hold a statement, and every edge carries a guard or None.       *)

MaxFan == 2

FanGuards == {None, <<"p">>, <<"q">>}

FanE == MaxFan + 1

RECURSIVE FanBlocks(_, _)
FanBlocks(g, bid) ==
    IF bid > 2 * MaxFan + 1 THEN g
    ELSE FanBlocks(IF bid = FanE THEN new_block(g, bid)
                   ELSE add_stmt(new_block(g, bid), bid, Stmt(SAssign)),
                   bid + 1)

RECURSIVE FanIn(_, _, _), FanOut(_, _, _)
FanIn(g, gp, i) ==
    IF i > Len(gp) THEN g ELSE FanIn(add_edge(g, i, FanE, gp[i]), gp, i + 1)

FanOut(g, gn, j) ==
    IF j > Len(gn) THEN g ELSE FanOut(add_edge(g, FanE, FanE + j, gn[j]), gn, j + 1)

Fan(gp, gn) == FanOut(FanIn(FanBlocks(CFG("fan"), 1), gp, 1), gn, 1)

InitFan ==
    /\ inputs = <<>>
    /\ counter = 2 * MaxFan + 1
    /\ visited = {}
    /\ builders = <<>>
    /\ retval = NoCFG
    /\ results \in { <<Fan(gp, gn)>> :
                        gp \in UNION { [1..k -> FanGuards] : k \in 0..MaxFan },
                        gn \in UNION { [1..m -> FanGuards] : m \in 0..MaxFan } }
    /\ err = "none"
    /\ names = 0

\* The is_empty branch of remove_empty_blocks on E, up to block.next.clear();
\* the recursion finds every successor visited.
eliminate_fan ==
    /\ inputs = <<>>
    /\ Len(results) = 1
    /\ is_empty(results[1].blocks[FanE])
    /\ results' = Append(results, eliminate(results[1], FanE))
    /\ UNCHANGED <<names, inputs, counter, visited, builders, retval, err>>

NextFan == eliminate_fan

SpecFan == InitFan /\ [][NextFan]_vars

\* C24: once E is eliminated, every pair (Pi, Nj) of a predecessor and a
\* successor of E is an edge whose guard is the conjunction of the guards
\* that (Pi, E) and (E, Nj) had before (the other one if either is None),
\* for the first predecessor and for the later ones alike; E is in no
\* successor list of a Pi and in no predecessor list of an Nj, and no entry
\* of edges or flows mentions E.
C24_EliminationPairs ==
    Len(results) = 2 =>
        LET before == results[1]
            after == results[2]
            P == before.blocks[FanE].prev
            N == before.blocks[FanE].next
        IN /\ \A i \in 1..Len(P) : \A j \in 1..Len(N) :
                 /\ <<P[i], N[j]>> \in DOMAIN after.edges
                 /\ after.edges[<<P[i], N[j]>>] =
                        add_condition(before.edges[<<P[i], FanE>>],
                                      before.edges[<<FanE, N[j]>>])
                 /\ InSeq(N[j], after.blocks[P[i]].next)
                 /\ InSeq(P[i], after.blocks[N[j]].prev)
           /\ \A i \in 1..Len(P) : ~ InSeq(FanE, after.blocks[P[i]].next)
           /\ \A j \in 1..Len(N) : ~ InSeq(FanE, after.blocks[N[j]].prev)
           /\ \A e \in DOMAIN after.edges \cup after.flows : e[1] # FanE /\ e[2] # FanE

----------------------------------------------------------------------------
(* Termination of remove_empty_blocks: the builder is one thread that takes *)
(* its next step whenever it has one.                                       *)

SpecFair == Init /\ [][Next]_vars /\ WF_vars(Next)

\* The calls of remove_empty_blocks of the innermost builder that have
\* passed the visited test, outermost first.
Processing ==
    LET R == { k \in 1..Len(B.ctl) : B.ctl[k].f = "reb" /\ B.ctl[k].pc # "enter" }
    IN [k \in R |-> B.ctl[k].bid]

\* No block is processed by two calls at once, and a block being processed
\* is in visited.
ProcessedOnce ==
    Active =>
        /\ \A k1, k2 \in DOMAIN Processing :
              Processing[k1] = Processing[k2] => k1 = k2
        /\ \A k \in DOMAIN Processing : Processing[k] \in visited

\* C25: a call remove_empty_blocks(start) made by build returns; no block is
\* processed twice: a block is processed by at most one call at a time, a
\* call that processes a block found it outside visited, and visited never
\* loses a block.
C25_EliminationTerminates ==
    /\ (AtFrame("build") /\ Fr.pc = "compact") ~> AtReturn
    /\ []ProcessedOnce
    /\ [][visited \subseteq visited']_vars

\* The elimination of an empty block is about to append to the successor
\* list that the calling remove_empty_blocks is iterating over, in a module
\* with a loop.
C25_Witness ==
    /\ AtFrame("reb")
    /\ Fr.pc = "elim"
    /\ Fr.i <= Len(RebBlock.prev)
    /\ Fr.j <= Len(RebBlock.next)
    /\ Len(B.ctl) >= 2
    /\ B.ctl[2].f = "reb"
    /\ B.ctl[2].pc = "rec"
    /\ B.ctl[2].bid = RebBlock.prev[Fr.i]
    /\ \E k \in 1..Len(B.tree.body) : B.tree.body[k].kind \in {"While", "For"}

\* The module being returned is one assignment from a call, or one call as
\* an expression statement, with a call among the arguments of the call.
TheCall == B.tree.body[1].value[1]

HasNestedCall ==
    /\ AtReturn
    /\ Len(builders) = 1
    /\ Len(B.tree.body) = 1
    /\ B.tree.body[1].kind \in {"Assign", "Expr"}
    /\ TheCall.kind = "Call"
    /\ HasCallArg(TheCall)

Trivial(e) == e.kind \in {"Name", "Num"}

\* The number of statements the lowering of a call leaves: one for the call,
\* and for every argument that is neither a Name nor a Num what that
\* argument leaves.
RECURSIVE LoweredCount(_)
LoweredCount(e) ==
    IF e.kind = "Call" /\ HasCallArg(e)
    THEN 1 + SumSeq([i \in 1..Len(e.args) |->
                       IF Trivial(e.args[i]) THEN 0 ELSE LoweredCount(e.args[i])])
    ELSE 1

\* The expression e with every name bound by one of the assignments defs
\* replaced by what it is bound to.
RECURSIVE Inline(_, _)
Inline(e, defs) ==
    IF e.kind = "Name" /\ \E j \in 1..Len(defs) : defs[j].name = e.name
    THEN Inline((CHOOSE d \in Range(defs) : d.name = e.name).value[1], defs)
    ELSE IF e.kind = "Call"
    THEN [e EXCEPT !.args = [i \in 1..Len(e.args) |-> Inline(e.args[i], defs)]]
    ELSE e

\* C26: the lowering of t = f(a1..an), or of the statement f(a1..an), with a
\* call among the arguments leaves a chain of blocks of one statement each:
\* assignments to distinct new names and then the final statement with the
\* target and the function of the original. Every argument that is neither
\* a Name nor a Num is replaced by a new name bound earlier in the chain,
\* the others stay in place; the names an assignment or the final statement
\* uses are bound in the order of its arguments; replacing every new name
\* by what it is bound to gives the original call back; an innermost call
\* comes first; no statement of the chain has a call among its arguments.
C26_NestedCallLowering ==
    HasNestedCall =>
        LET g == B.cfg
            orig == B.tree.body[1]
            n == LoweredCount(TheCall)
            path == FirstSuccessors(g, g.start, n)
            S == [j \in 1..n |-> g.blocks[path[j]].stmts[1]]
            defs == SubSeq(S, 1, n - 1)
            final == IF orig.kind = "Assign" THEN S[n].value[1] ELSE S[n]
            CallOf(st) == IF st.kind = "Assign" THEN st.value[1] ELSE st
            Pos(nm) == CHOOSE j \in 1..(n - 1) : S[j].name = nm
            IsTmp(e) == e.kind = "Name" /\ InSeq(e.name, TmpNames)
        IN /\ \A j \in 1..n : path[j] \in DOMAIN g.blocks /\ Len(g.blocks[path[j]].stmts) = 1
           /\ g.blocks[path[n]].next = <<>>
           /\ \A b \in DOMAIN g.blocks : g.blocks[b].stmts # <<>> => InSeq(b, path)
           /\ \A j \in 1..(n - 1) :
                 /\ S[j].kind = "Assign"
                 /\ InSeq(S[j].name, TmpNames)
                 /\ \A k \in 1..(n - 1) : S[k].name = S[j].name => k = j
                 /\ g.blocks[path[j]].next = <<path[j + 1]>>
           /\ IF orig.kind = "Assign"
              THEN S[n].kind = "Assign" /\ S[n].name = orig.name /\ final.kind = "Call"
              ELSE S[n].kind = "Call"
           /\ final.name = TheCall.name
           /\ Len(final.args) = Len(TheCall.args)
           /\ \A i \in 1..Len(final.args) :
                 IF Trivial(TheCall.args[i]) THEN final.args[i] = TheCall.args[i]
                 ELSE IsTmp(final.args[i])
           /\ \A j \in 1..n :
                 LET c == CallOf(S[j])
                 IN c.kind = "Call" =>
                       /\ ~ HasCallArg(c)
                       /\ \A i \in 1..Len(c.args) :
                             IsTmp(c.args[i]) =>
                                /\ \E k \in 1..(j - 1) : S[k].name = c.args[i].name
                                /\ \A i2 \in (i + 1)..Len(c.args) :
                                      IsTmp(c.args[i2]) =>
                                         Pos(c.args[i].name) < Pos(c.args[i2].name)
           /\ Inline(final, defs) = TheCall
           /\ S[1].value # <<>> /\ \A i \in 1..Len(CallOf(S[1]).args) : ~ IsTmp(CallOf(S[1]).args[i])
           /\ \A j \in 1..n : S[j] # orig /\ S[j] # TheCall

\* A call with two arguments that are calls, the first of them with a call
\* as its argument, has been lowered to four statements.
C26_Witness ==
    /\ HasNestedCall
    /\ Len(TheCall.args) = 2
    /\ HasCallArg(TheCall.args[1])
    /\ TheCall.args[2].kind = "Call"
    /\ LoweredCount(TheCall) = 4
    /\ Cardinality({ b \in DOMAIN B.cfg.blocks : B.cfg.blocks[b].stmts # <<>> }) = 4

\* C27: the build of a module whose last statement is a list comprehension
\* used as an expression statement does not fail; it returns a CFG that
\* holds the header of the loop of the comprehension, and list_comp_stack
\* is empty on return.
C27_BareComprehensionBuilds ==
    (Len(inputs) = 1 /\ inputs[1] \in BareCompPrograms) =>
        /\ err = "none"
        /\ AtReturn =>
              /\ B.list_comp_stack = <<>>
              /\ \E bid \in DOMAIN B.cfg.blocks :
                    InSeq(Stmt([Header("For", "") EXCEPT
                                  !.name = GenTargets[1],
                                  !.value = <<Name(GenIters[1])>>]),
                          B.cfg.blocks[bid].stmts)

\* The visits of loops that builder b has entered and not left, innermost
\* first, and its visits of assignments from a list comprehension.
LoopVisits(b) ==
    LET IsLoop(fr) == fr.f \in {"visit_While", "visit_For"}
    IN SelectSeq(b.ctl, IsLoop)

CompVisits(b) ==
    LET IsComp(fr) == fr.f = "visit_Assign"
    IN SelectSeq(b.ctl, IsComp)

\* The stacks of builder b mirror its visits: loop_stack holds the exits of
\* the loops being visited, outermost first, loop_guard_stack as many blocks,
\* each holding the header of a loop, list_comp_stack one name per
\* assignment from a list comprehension being visited, and the other
\* stacks nothing.
StacksMirrorVisits(b) ==
    LET loops == LoopVisits(b)
        n == Len(loops)
    IN /\ Len(b.loop_stack) = n
       /\ Len(b.loop_guard_stack) = n
       /\ \A k \in 1..n :
             /\ b.loop_stack[k] = loops[n + 1 - k].after
             /\ b.loop_guard_stack[k] \in DOMAIN b.cfg.blocks
             /\ b.cfg.blocks[b.loop_guard_stack[k]].stmts # <<>>
             /\ Last(b.cfg.blocks[b.loop_guard_stack[k]].stmts).kind \in {"While", "For"}
       /\ Len(b.list_comp_stack) = Len(CompVisits(b))
       /\ b.set_comp_stack = <<>>
       /\ b.dict_comp_stack = <<>>
       /\ b.gen_exp_stack = <<>>

HasElseJump == AtReturn /\ Len(builders) = 1 /\ B.tree \in ElseJumpPrograms

ElseJumpNested == B.tree.body[1].orelse = <<>>

ElseJumpL == IF ElseJumpNested THEN B.tree.body[1].body[1] ELSE B.tree.body[1]

HoldsFirst(g, st) == { b \in DOMAIN g.blocks : g.blocks[b].stmts # <<>> /\ g.blocks[b].stmts[1] = st }

Holding(g, kind) ==
    { b \in DOMAIN g.blocks : \E j \in 1..Len(g.blocks[b].stmts) : g.blocks[b].stmts[j].kind = kind }

\* C29: every block that holds a break of L, from its body or from its else
\* clause, has the block after L among its successors, and every block that
\* holds the continue of the else clause of L has the guard of L; when L is
\* the body of another loop, no edge leaves a block holding a break for the
\* exit of that loop, and none leaves a block holding a continue for its
\* guard.
C29_ElseJumpsOwnLoop ==
    HasElseJump =>
        LET g == B.cfg
            guardL == HoldsFirst(g, Stmt(ElseJumpL))
            afterL == HoldsFirst(g, Held(SCall))
            guardOuter == HoldsFirst(g, Stmt(B.tree.body[1]))
            exitOuter == HoldsFirst(g, Stmt(SAssign))
            Edge(x, y) == \/ InSeq(y, g.blocks[x].next)
                          \/ InSeq(x, g.blocks[y].prev)
                          \/ <<x, y>> \in DOMAIN g.edges
                          \/ <<x, y>> \in g.flows
        IN /\ Cardinality(guardL) = 1
           /\ Cardinality(afterL) = 1
           /\ Holding(g, "Break") \cup Holding(g, "Continue") # {}
           /\ \A b \in Holding(g, "Break") : \A a \in afterL :
                 InSeq(a, g.blocks[b].next) /\ <<b, a>> \in DOMAIN g.edges
           /\ \A b \in Holding(g, "Continue") : \A a \in guardL :
                 InSeq(a, g.blocks[b].next) /\ <<b, a>> \in DOMAIN g.edges
           /\ ElseJumpNested =>
                 /\ Cardinality(guardOuter) = 1
                 /\ Cardinality(exitOuter) = 1
                 /\ \A b \in Holding(g, "Break") : \A x \in exitOuter : ~ Edge(b, x)
                 /\ \A b \in Holding(g, "Continue") : \A x \in guardOuter : ~ Edge(b, x)

\* A while loop with a break in its body and a break in its else clause,
\* inside a for loop, has been built.
C29_Witness ==
    /\ HasElseJump
    /\ ElseJumpNested
    /\ ElseJumpL.kind = "While"
    /\ ElseJumpL.body = <<Node("Break")>>
    /\ ElseJumpL.orelse = <<Node("Break")>>
    /\ Cardinality(Holding(B.cfg, "Break")) = 2

\* The blocks of g that hold a statement.
NonEmpty(g) == { b \in DOMAIN g.blocks : g.blocks[b].stmts # <<>> }

\* C30: at the return of build, for the CFG before the pass and the CFG
\* after it: any two blocks that hold a statement and were reachable from
\* start before the pass are reachable one from the other along successor
\* lists after the pass exactly when they were before; every block that
\* holds a statement and was reachable from start still is; no statement
\* list has changed and blocks has the same keys.
C30_EliminationKeepsReachability ==
    AtReturn =>
        LET before == Fr.before
            after == B.cfg
            R == Reach(before) \cap NonEmpty(before)
        IN /\ DOMAIN after.blocks = DOMAIN before.blocks
           /\ \A b \in DOMAIN before.blocks : after.blocks[b].stmts = before.blocks[b].stmts
           /\ R \subseteq Reach(after)
           /\ \A u \in R : Closure(after, {u}) \cap R = Closure(before, {u}) \cap R

\* The pass has eliminated an empty block that lay between two blocks that
\* hold statements, in a CFG with a loop: some block that was reachable and
\* empty before has lost its successors, and a block that holds a statement
\* reaches itself again through others.
C30_Witness ==
    /\ AtReturn
    /\ \E e \in Reach(Fr.before) \ NonEmpty(Fr.before) :
          /\ Fr.before.blocks[e].prev # <<>>
          /\ Fr.before.blocks[e].next # <<>>
          /\ B.cfg.blocks[e].next = <<>>
          /\ e \notin Reach(B.cfg)
    /\ \E u \in Reach(B.cfg) \cap NonEmpty(B.cfg) :
          \E v \in Range(B.cfg.blocks[u].next) : v # u /\ u \in Closure(B.cfg, {v})
    /\ Cardinality(Reach(Fr.before) \cap NonEmpty(Fr.before)) >= 3

====
